---------------------------- MODULE LimitsProofs ----------------------------
(***************************************************************************)
(* Proofs about the rate limiters (RateLimit), the limit on successful     *)
(* model requests (ModelRateLimit) and the wallet (QuotaStore), for any    *)
(* limit, any period, any requests and amounts, any times and any budgets  *)
(* of faults.                                                              *)
(***************************************************************************)
EXTENDS MCLimits, FiniteSetTheorems, TLAPS

-----------------------------------------------------------------------------
(* Counting in a sequence of times that never goes back.                   *)

Times(s) == s \in Seq(Nat)
Ordered(s) == \A i, j \in 1 .. Len(s) : i <= j => s[i] <= s[j]
Later(s, t) == {i \in DOMAIN s : s[i] > t}

LEMMA LaterIsFinite ==
    ASSUME NEW s, Times(s), NEW t \in Int
    PROVE  /\ IsFiniteSet(Later(s, t))
           /\ Cardinality(Later(s, t)) \in Nat
           /\ Later(s, t) \subseteq 1 .. Len(s)
<1>1. DOMAIN s = 1 .. Len(s) /\ Len(s) \in Nat
  BY DEF Times
<1>2. IsFiniteSet(1 .. Len(s))
  BY <1>1, FS_Interval
<1>3. Later(s, t) \in SUBSET (1 .. Len(s))
  BY <1>1 DEF Later
<1>4. IsFiniteSet(Later(s, t))
  BY <1>2, <1>3, FS_Subset
<1> QED
  BY <1>3, <1>4, FS_CardinalityType

\* What is not among the last k is early: at most k are late.
LEMMA AtMostLast ==
    ASSUME NEW s, Times(s), NEW t \in Int, NEW k \in Nat,
           \A i \in 1 .. Len(s) : i <= Len(s) - k => s[i] <= t
    PROVE  Cardinality(Later(s, t)) <= k
<1> DEFINE n == Len(s)
<1>1. DOMAIN s = 1 .. n /\ n \in Nat /\ \A i \in 1 .. n : s[i] \in Nat
  BY DEF Times
<1>0. PICK m \in Int : (n > k => m = n - k + 1) /\ (n <= k => m = 1)
  <2>1. CASE n > k
    <3> WITNESS n - k + 1 \in Int
    <3> QED
      BY <1>1, <2>1
  <2>2. CASE n <= k
    <3> WITNESS 1 \in Int
    <3> QED
      BY <1>1, <2>2
  <2> QED
    BY <1>1, <2>1, <2>2
<1>2. IsFiniteSet(m .. n) /\ Cardinality(m .. n) <= k
  <2>1. IsFiniteSet(m .. n) /\ Cardinality(m .. n) = IF m > n THEN 0 ELSE n - m + 1
    BY <1>1, FS_Interval
  <2> QED
    BY <1>1, <1>0, <2>1
<1>3. Later(s, t) \in SUBSET (m .. n)
  BY <1>0, <1>1 DEF Later
<1>4. Cardinality(Later(s, t)) <= Cardinality(m .. n)
  BY <1>2, <1>3, FS_Subset
<1>5. Cardinality(m .. n) \in Nat /\ Cardinality(Later(s, t)) \in Nat
  BY <1>2, LaterIsFinite, FS_CardinalityType
<1> QED
  BY <1>2, <1>4, <1>5

\* The last k are late, and so there are at least k.
LEMMA AtLeastLast ==
    ASSUME NEW s, Times(s), NEW t \in Int, NEW k \in Nat, k <= Len(s),
           \A i \in 1 .. Len(s) : i > Len(s) - k => s[i] > t
    PROVE  Cardinality(Later(s, t)) >= k
<1> DEFINE n == Len(s)
           m == n - k + 1
<1>1. DOMAIN s = 1 .. n /\ n \in Nat
  BY DEF Times
<1>2. m \in Int /\ IsFiniteSet(m .. n) /\ Cardinality(m .. n) = k
  BY <1>1, FS_Interval
<1>3. m .. n \in SUBSET Later(s, t)
  BY <1>1 DEF Later
<1>4. Cardinality(m .. n) <= Cardinality(Later(s, t))
  BY <1>3, LaterIsFinite, FS_Subset
<1>5. Cardinality(Later(s, t)) \in Nat
  BY LaterIsFinite
<1> QED
  BY <1>2, <1>4, <1>5

\* A time that is not before the others may follow them.
LEMMA OrderedAppend ==
    ASSUME NEW s, Times(s), Ordered(s), NEW t \in Nat,
           \A i \in 1 .. Len(s) : s[i] <= t
    PROVE  /\ Times(Append(s, t)) /\ Ordered(Append(s, t))
           /\ Len(Append(s, t)) = Len(s) + 1
           /\ \A i \in 1 .. Len(s) : Append(s, t)[i] = s[i]
           /\ Append(s, t)[Len(s) + 1] = t
           /\ \A i \in 1 .. Len(s) + 1 : Append(s, t)[i] <= t
<1>1. /\ Times(Append(s, t))
      /\ Len(Append(s, t)) = Len(s) + 1
      /\ \A i \in 1 .. Len(s) : Append(s, t)[i] = s[i]
      /\ Append(s, t)[Len(s) + 1] = t
      /\ Len(s) \in Nat /\ \A i \in 1 .. Len(s) : s[i] \in Nat
  BY DEF Times
<1>2. Ordered(Append(s, t)) /\ \A i \in 1 .. Len(s) + 1 : Append(s, t)[i] <= t
  BY <1>1 DEF Ordered
<1> QED
  BY <1>1, <1>2

-----------------------------------------------------------------------------
(* The limiters: what their keys know of the requests that were admitted.  *)

AdmittedOK ==
    /\ limiter \in Limiters /\ now \in Nat
    /\ Times(admitted) /\ Ordered(admitted)
    /\ \A i \in 1 .. Len(admitted) : admitted[i] <= now

\* The queue has the last times; those before them are out of the period.
QueueOK ==
    /\ Times(key)
    /\ Len(key) <= Max /\ Len(key) <= Len(admitted)
    /\ \A i \in 1 .. Len(key) : key[i] = admitted[Len(admitted) - Len(key) + i]
    /\ Duration <= Expiration =>
         \A j \in 1 .. Len(admitted) :
           j <= Len(admitted) - Len(key) => admitted[j] <= now - Duration

\* The requests admitted in the window there is.
InWindow(window) == IF window.count < Max THEN window.count ELSE Max

\* They came after its start, all others before, and all but Max of those a
\* Duration before.
WindowOK ==
    /\ key \in [count : Nat, ends : Nat]
    /\ InWindow(key) <= Len(admitted)
    /\ key.count = 0 => admitted = <<>>
    /\ key.count > 0 =>
         /\ key.ends - Duration <= now
         /\ \A j \in 1 .. Len(admitted) :
              /\ admitted[j] < key.ends
              /\ IF j > Len(admitted) - InWindow(key)
                 THEN admitted[j] >= key.ends - Duration
                 ELSE admitted[j] < key.ends - Duration
              /\ j <= Len(admitted) - InWindow(key) - Max =>
                   admitted[j] < key.ends - Duration - Duration

\* Since any request was admitted, the bucket has had at most its size and what
\* flowed in, and at least what flowed in or its size, less what was taken.
BucketOK ==
    \/ key = NoBucket /\ admitted = <<>>
    \/ /\ key \in [tokens : Nat, last : Nat] /\ key.last <= now
       /\ key.tokens + Len(admitted) * Duration >= Max * Duration
       /\ \A i \in 1 .. Len(admitted) :
            LET taken == (Len(admitted) - i) * Duration
                inflow == (key.last - admitted[i]) * Max
            IN /\ admitted[i] <= key.last
               /\ taken + Duration + key.tokens <= Max * Duration + inflow
               /\ \/ key.tokens + taken >= Max * Duration
                  \/ key.tokens + taken >= inflow

LimitInv ==
    /\ AdmittedOK
    /\ limiter = "queue" => QueueOK
    /\ limiter = "window" => WindowOK
    /\ limiter = "bucket" => BucketOK /\ BucketConforms

LEMMA LimitInit == Init => LimitInv
<1> SUFFICES ASSUME Init PROVE LimitInv
  OBVIOUS
<1>1. Times(<<>>) /\ Len(<<>>) = 0
  BY DEF Times
<1>2. AdmittedOK
  BY <1>1 DEF Init, AdmittedOK, Ordered
<1>3. limiter = "queue" => QueueOK
  BY <1>1, ConstantsOK DEF Init, QueueOK, Empty
<1>4. limiter = "window" => WindowOK
  BY <1>1, ConstantsOK DEF Init, WindowOK, Empty, NoWindow, InWindow
<1>5. limiter = "bucket" => BucketOK /\ BucketConforms
  BY <1>1 DEF Init, BucketOK, BucketConforms, Empty
<1> QED
  BY <1>2, <1>3, <1>4, <1>5 DEF LimitInv

\* Admitting a request now keeps the order.
LEMMA AdmittedAfter ==
    ASSUME AdmittedOK, now' = now, limiter' = limiter,
           \/ admitted' = admitted
           \/ admitted' = Append(admitted, now)
    PROVE  AdmittedOK'
<1>1. CASE admitted' = admitted
  BY <1>1 DEF AdmittedOK
<1>2. CASE admitted' = Append(admitted, now)
  BY <1>2, OrderedAppend DEF AdmittedOK
<1> QED
  BY <1>1, <1>2

LEMMA TickKeeps == LimitInv /\ Tick => LimitInv'
<1> SUFFICES ASSUME LimitInv, Tick PROVE LimitInv'
  OBVIOUS
<1>0. /\ now' = now + 1 /\ now \in Nat /\ limiter' = limiter /\ key' = key
      /\ admitted' = admitted
      /\ Len(admitted) \in Nat /\ \A i \in 1 .. Len(admitted) : admitted[i] \in Nat
  BY DEF LimitInv, AdmittedOK, Times, Tick
<1>1. AdmittedOK'
  BY <1>0 DEF LimitInv, AdmittedOK
<1>2. limiter = "queue" => QueueOK'
  BY <1>0, ConstantsOK DEF LimitInv, QueueOK
<1>3. limiter = "window" => WindowOK'
  BY <1>0, ConstantsOK DEF LimitInv, WindowOK, InWindow
<1>4. limiter = "bucket" => BucketOK' /\ BucketConforms'
  BY <1>0, ConstantsOK DEF LimitInv, BucketOK, BucketConforms
<1> QED
  BY <1>0, <1>1, <1>2, <1>3, <1>4 DEF LimitInv

LEMMA SweepKeeps == LimitInv /\ clearExpiredItems => LimitInv'
<1> SUFFICES ASSUME LimitInv, clearExpiredItems PROVE LimitInv'
  OBVIOUS
<1>0. /\ now' = now /\ now \in Nat /\ limiter' = limiter /\ key' = <<>>
      /\ admitted' = admitted /\ Times(admitted) /\ Ordered(admitted)
      /\ Len(admitted) \in Nat /\ \A i \in 1 .. Len(admitted) : admitted[i] \in Nat
      /\ limiter = "queue" /\ Expired(key, now, Expiration) /\ QueueOK
  BY DEF LimitInv, AdmittedOK, Times, clearExpiredItems
<1>1. AdmittedOK'
  BY <1>0 DEF LimitInv, AdmittedOK
<1>2. QueueOK'
  <2>1. Times(<<>>) /\ Len(<<>>) = 0
    BY DEF Times
  <2>2. /\ Len(key) \in Nat \ {0} /\ key[Len(key)] \in Nat
        /\ now - key[Len(key)] > Expiration
        /\ key[Len(key)] = admitted[Len(admitted)]
    BY <1>0 DEF Expired, QueueOK, Times
  <2>3. \A j \in 1 .. Len(admitted) : admitted[j] <= admitted[Len(admitted)]
    BY <1>0 DEF Ordered
  <2> QED
    BY <1>0, <2>1, <2>2, <2>3, ConstantsOK DEF QueueOK
<1> QED
  BY <1>0, <1>1, <1>2 DEF LimitInv

\* The queue: the request is counted, counted for the oldest one, or refused
\* when the oldest one is within the period.
LEMMA QueueKeeps == LimitInv /\ Queue => LimitInv' /\ RefusedMeansFull'
<1> SUFFICES ASSUME LimitInv, Queue PROVE LimitInv' /\ RefusedMeansFull'
  OBVIOUS
<1> DEFINE n == Len(admitted)
           k == Len(key)
<1>0. /\ now' = now /\ now \in Nat /\ limiter' = limiter /\ limiter = "queue"
      /\ AdmittedOK /\ Times(admitted) /\ Ordered(admitted) /\ Times(key)
      /\ QueueOK
      /\ \A i \in 1 .. Len(admitted) : admitted[i] <= now
  BY DEF LimitInv, AdmittedOK, QueueOK, Queue, Answered
<1>1. /\ n \in Nat /\ k \in Nat /\ k <= n
      /\ \A i \in 1 .. n : admitted[i] \in Nat
      /\ \A i \in 1 .. k : key[i] \in Nat /\ key[i] = admitted[n - k + i]
  BY <1>0 DEF QueueOK, Times
<1>2. Max \in Nat \ {0} /\ Duration \in Nat /\ Expiration \in Nat
  BY ConstantsOK
<1>3. CASE k < Max
  <2>1. /\ key' = Append(key, now) /\ admitted' = Append(admitted, now)
        /\ ~refused'
    BY <1>3 DEF Queue, Answered, Request
  <2>2. AdmittedOK'
    BY <1>0, <2>1, AdmittedAfter
  <2>3. /\ Len(admitted') = n + 1
        /\ \A i \in 1 .. n : admitted'[i] = admitted[i]
        /\ admitted'[n + 1] = now
    BY <1>0, <2>1, OrderedAppend
  <2>4. /\ Times(key') /\ Len(key') = k + 1
        /\ \A i \in 1 .. k : key'[i] = key[i]
        /\ key'[k + 1] = now
    BY <1>0, <1>1, <2>1 DEF Times
  <2>5. \A i \in 1 .. k + 1 : key'[i] = admitted'[(n + 1) - (k + 1) + i]
    <3> SUFFICES ASSUME NEW i \in 1 .. k + 1
                 PROVE  key'[i] = admitted'[n - k + i]
      BY <1>1
    <3>1. CASE i = k + 1
      BY <1>1, <2>3, <2>4, <3>1
    <3>2. CASE i \in 1 .. k
      <4>1. n - k + i \in 1 .. n
        BY <1>1, <3>2
      <4> QED
        BY <1>1, <2>3, <2>4, <3>2, <4>1
    <3> QED
      BY <1>1, <3>1, <3>2
  <2>6. Duration <= Expiration =>
          \A j \in 1 .. n + 1 : j <= (n + 1) - (k + 1) => admitted'[j] <= now - Duration
    <3> SUFFICES ASSUME Duration <= Expiration,
                        NEW j \in 1 .. n + 1, j <= (n + 1) - (k + 1)
                 PROVE  admitted'[j] <= now - Duration
      OBVIOUS
    <3>1. j \in 1 .. n /\ j <= n - k
      BY <1>1
    <3>2. admitted[j] <= now - Duration
      BY <1>0, <3>1 DEF QueueOK
    <3> QED
      BY <2>3, <3>1, <3>2
  <2>7. k + 1 <= Max /\ k + 1 <= n + 1
    BY <1>1, <1>2, <1>3
  <2>8. QueueOK'
    BY <1>0, <2>3, <2>4, <2>5, <2>6, <2>7 DEF QueueOK
  <2> QED
    BY <1>0, <2>1, <2>2, <2>8 DEF LimitInv, RefusedMeansFull
<1>4. CASE k >= Max
  <2>0. /\ k = Max /\ k \in Nat \ {0} /\ key # <<>>
        /\ Head(key) = key[1] /\ Head(key) = admitted[n - k + 1]
    <3>1. k <= Max
      BY <1>0 DEF QueueOK
    <3>2. k = Max /\ k \in Nat \ {0} /\ 1 \in 1 .. k
      BY <1>1, <1>2, <1>4, <3>1
    <3>3. key # <<>> /\ Head(key) = key[1]
      BY <1>0, <3>2 DEF Times
    <3> QED
      BY <1>1, <3>2, <3>3
  <2>a. ~(key = <<>> \/ Len(key) < Max)
    BY <1>1, <1>2, <2>0
  <2>1. CASE now - Head(key) >= Duration
    <3>1. /\ key' = Append(Tail(key), now) /\ admitted' = Append(admitted, now)
          /\ ~refused'
      BY <2>a, <2>1 DEF Queue, Answered, Request
    <3>2. AdmittedOK'
      BY <1>0, <3>1, AdmittedAfter
    <3>3. /\ Len(admitted') = n + 1
          /\ \A i \in 1 .. n : admitted'[i] = admitted[i]
          /\ admitted'[n + 1] = now
      BY <1>0, <3>1, OrderedAppend
    <3>4. /\ Tail(key) \in Seq(Nat) /\ Len(Tail(key)) = k - 1
          /\ \A i \in 1 .. k - 1 : Tail(key)[i] = key[i + 1]
      BY <1>0, <2>0 DEF Times
    <3>5. /\ Times(key') /\ Len(key') = k
          /\ \A i \in 1 .. k - 1 : key'[i] = key[i + 1]
          /\ key'[k] = now
      BY <1>0, <1>1, <2>0, <3>1, <3>4 DEF Times
    <3>6. \A i \in 1 .. k : key'[i] = admitted'[(n + 1) - k + i]
      <4> SUFFICES ASSUME NEW i \in 1 .. k
                   PROVE  key'[i] = admitted'[(n + 1) - k + i]
        OBVIOUS
      <4>1. CASE i = k
        BY <1>1, <3>3, <3>5, <4>1
      <4>2. CASE i \in 1 .. k - 1
        <5>1. (n + 1) - k + i \in 1 .. n /\ i + 1 \in 1 .. k
              /\ (n + 1) - k + i = n - k + (i + 1)
          BY <1>1, <4>2
        <5> QED
          BY <1>1, <3>3, <3>5, <4>2, <5>1
      <4> QED
        BY <1>1, <4>1, <4>2
    <3>7. Duration <= Expiration =>
            \A j \in 1 .. n + 1 : j <= n + 1 - k => admitted'[j] <= now - Duration
      <4> SUFFICES ASSUME Duration <= Expiration,
                          NEW j \in 1 .. n + 1, j <= n + 1 - k
                   PROVE  admitted'[j] <= now - Duration
        OBVIOUS
      <4>0. j \in 1 .. n /\ (j <= n - k \/ j = n - k + 1)
        BY <1>1, <2>0
      <4>1. admitted'[j] = admitted[j]
        BY <4>0, <3>3
      <4>2. CASE j <= n - k
        BY <1>0, <4>0, <4>1, <4>2 DEF QueueOK
      <4>3. CASE j = n - k + 1
        BY <1>0, <1>1, <1>2, <2>0, <2>1, <4>0, <4>1, <4>3
      <4> QED
        BY <4>0, <4>2, <4>3
    <3>8. QueueOK'
      BY <1>0, <1>1, <1>2, <2>0, <3>3, <3>5, <3>6, <3>7 DEF QueueOK
    <3> QED
      BY <1>0, <3>1, <3>2, <3>8 DEF LimitInv, RefusedMeansFull
  <2>2. CASE ~(now - Head(key) >= Duration)
    <3>1. key' = key /\ admitted' = admitted /\ refused'
      BY <2>a, <2>2 DEF Queue, Answered, Request
    <3>2. LimitInv'
      BY <1>0, <3>1 DEF LimitInv, AdmittedOK, QueueOK
    <3>3. \A i \in 1 .. n : i > n - Max => admitted[i] > now - Duration
      <4> SUFFICES ASSUME NEW i \in 1 .. n, i > n - Max
                   PROVE  admitted[i] > now - Duration
        OBVIOUS
      <4>1. n - k + 1 \in 1 .. n /\ n - k + 1 <= i
        BY <1>1, <2>0
      <4>2. admitted[n - k + 1] <= admitted[i]
        BY <1>0, <4>1 DEF Ordered
      <4> QED
        BY <1>0, <1>1, <1>2, <2>0, <2>2, <4>1, <4>2, SMTT(30)
    <3>4. Cardinality(Later(admitted, now - Duration)) >= Max
      BY <1>0, <1>1, <1>2, <2>0, <3>3, AtLeastLast, SMTT(30)
    <3> QED
      BY <1>0, <3>1, <3>2, <3>4 DEF RefusedMeansFull, Recent, Later
  <2> QED
    BY <2>1, <2>2
<1> QED
  BY <1>1, <1>2, <1>3, <1>4

\* The window: a new one, one more request in it, or a refusal.
LEMMA WindowKeeps == LimitInv /\ Take => LimitInv' /\ RefusedMeansFull'
<1> SUFFICES ASSUME LimitInv, Take PROVE LimitInv' /\ RefusedMeansFull'
  OBVIOUS
<1> DEFINE n == Len(admitted)
<1>0. /\ now' = now /\ now \in Nat /\ limiter' = limiter /\ limiter = "window"
      /\ AdmittedOK /\ Times(admitted) /\ Ordered(admitted)
      /\ WindowOK
      /\ \A i \in 1 .. n : admitted[i] <= now
  BY DEF LimitInv, AdmittedOK, Take, Counted, Answered
<1>1. /\ n \in Nat /\ \A i \in 1 .. n : admitted[i] \in Nat
      /\ key.count \in Nat /\ key.ends \in Nat
  BY <1>0 DEF WindowOK, Times
<1>2. Max \in Nat \ {0} /\ Duration \in Nat \ {0}
  BY ConstantsOK
<1>a. ASSUME admitted' = Append(admitted, now)
      PROVE  /\ Len(admitted') = n + 1 /\ AdmittedOK'
             /\ \A i \in 1 .. n : admitted'[i] = admitted[i]
             /\ admitted'[n + 1] = now
  BY <1>0, <1>a, OrderedAppend, AdmittedAfter
<1>3. CASE key.count = 0 \/ now >= key.ends
  <2>1. /\ key' = [count |-> 1, ends |-> now + Duration]
        /\ admitted' = Append(admitted, now) /\ ~refused'
    <3>1. 1 <= Max
      BY <1>2
    <3>2. redisFixedWindowTake(key, now, Max, Duration)
            = [allowed |-> TRUE, left |-> [count |-> 1, ends |-> now + Duration]]
      BY <3>1, <1>3 DEF redisFixedWindowTake
    <3>3. Answered([allowed |-> TRUE, left |-> [count |-> 1, ends |-> now + Duration]])
      BY <3>2 DEF Take
    <3> QED
      BY <3>3 DEF Answered
  <2>2. key'.count = 1 /\ key'.ends = now + Duration /\ InWindow(key)' = 1
        /\ key' \in [count : Nat, ends : Nat]
    BY <1>0, <1>2, <2>1 DEF InWindow
  <2>3. ASSUME NEW j \in 1 .. n + 1
        PROVE  /\ admitted'[j] < now + Duration
               /\ IF j > n THEN admitted'[j] >= now ELSE admitted'[j] < now
               /\ j <= n - Max => admitted'[j] < now - Duration
    <3>1. CASE j = n + 1
      BY <1>0, <1>1, <1>2, <1>a, <2>1, <3>1
    <3>2. CASE j \in 1 .. n
      <4>1. n # 0 /\ key.count > 0 /\ now >= key.ends
        BY <1>0, <1>1, <1>3, <3>2 DEF WindowOK, Times
      <4>3. InWindow(key) \in Nat /\ InWindow(key) <= Max
        BY <1>1, <1>2 DEF InWindow
      <4>2. /\ admitted[j] < key.ends
            /\ j <= n - InWindow(key) => admitted[j] < key.ends - Duration
        BY <1>0, <1>1, <3>2, <4>1, <4>3 DEF WindowOK
      <4>4. j <= n - Max => j <= n - InWindow(key)
        BY <1>1, <1>2, <4>3
      <4>5. admitted'[j] = admitted[j] /\ admitted[j] \in Nat /\ ~(j > n)
        BY <1>1, <1>a, <2>1, <3>2
      <4> QED
        BY <1>0, <1>1, <1>2, <4>1, <4>2, <4>4, <4>5
    <3> QED
      BY <1>1, <3>1, <3>2
  <2>4. WindowOK'
    BY <1>0, <1>1, <1>2, <1>a, <2>1, <2>2, <2>3, SMTT(30) DEF WindowOK
  <2> QED
    BY <1>0, <1>a, <2>1, <2>4 DEF LimitInv, RefusedMeansFull
<1>4. CASE ~(key.count = 0 \/ now >= key.ends)
  <2>0. key.count > 0 /\ now < key.ends
    BY <1>0, <1>1, <1>4
  <2>1. CASE key.count + 1 <= Max
    <3>1. /\ key' = [count |-> key.count + 1, ends |-> key.ends]
          /\ admitted' = Append(admitted, now) /\ ~refused'
      BY <1>4, <2>1 DEF Take, Answered, redisFixedWindowTake
    <3>2. /\ key'.count = key.count + 1 /\ key'.ends = key.ends
          /\ InWindow(key) = key.count /\ InWindow(key)' = key.count + 1
          /\ key' \in [count : Nat, ends : Nat]
      BY <1>1, <1>2, <2>1, <3>1 DEF InWindow
    <3>3. ASSUME NEW j \in 1 .. n + 1
          PROVE  /\ admitted'[j] < key.ends
                 /\ IF j > n - key.count THEN admitted'[j] >= key.ends - Duration
                    ELSE admitted'[j] < key.ends - Duration
                 /\ j <= n - key.count - Max =>
                      admitted'[j] < key.ends - Duration - Duration
      <4>1. CASE j = n + 1
        <5>1. key.ends - Duration <= now
          BY <1>0, <2>0 DEF WindowOK
        <5> QED
          BY <1>0, <1>1, <1>2, <1>a, <2>0, <3>1, <4>1, <5>1
      <4>2. CASE j \in 1 .. n
        BY <1>0, <1>1, <1>a, <2>0, <3>1, <3>2, <4>2 DEF WindowOK
      <4> QED
        BY <1>1, <4>1, <4>2
    <3>4. /\ key.count + 1 <= n + 1 /\ key.ends - Duration <= now
          /\ (n + 1) - (key.count + 1) = n - key.count
      BY <1>0, <1>1, <2>0, <3>2 DEF WindowOK
    <3>5. WindowOK'
      <4> DEFINE c == key.count + 1
      <4>1. /\ Len(admitted') = n + 1 /\ InWindow(key)' = c /\ key'.ends = key.ends
            /\ key'.count = c /\ c # 0 /\ c > 0
        BY <1>1, <1>a, <3>1, <3>2
      <4>2. \A j \in 1 .. n + 1 :
              /\ admitted'[j] < key.ends
              /\ IF j > (n + 1) - c THEN admitted'[j] >= key.ends - Duration
                 ELSE admitted'[j] < key.ends - Duration
              /\ j <= (n + 1) - c - Max =>
                   admitted'[j] < key.ends - Duration - Duration
        BY <3>3, <3>4
      <4> QED
        BY <1>0, <3>2, <3>4, <4>1, <4>2 DEF WindowOK
    <3> QED
      BY <1>0, <1>a, <3>1, <3>5 DEF LimitInv, RefusedMeansFull
  <2>2. CASE ~(key.count + 1 <= Max)
    <3>1. /\ key' = [count |-> key.count + 1, ends |-> key.ends]
          /\ admitted' = admitted /\ refused'
      BY <1>4, <2>2 DEF Take, Answered, redisFixedWindowTake
    <3>2. /\ key'.count = key.count + 1 /\ key'.ends = key.ends
          /\ InWindow(key) = Max /\ InWindow(key)' = Max
          /\ key' \in [count : Nat, ends : Nat]
      BY <1>1, <1>2, <2>2, <3>1 DEF InWindow
    <3>3. WindowOK'
      BY <1>0, <1>1, <2>0, <3>1, <3>2 DEF WindowOK
    <3>4. \A i \in 1 .. n : i > n - Max => admitted[i] > now - Duration
      BY <1>0, <1>1, <1>2, <2>0, <3>2 DEF WindowOK
    <3>5. Max <= n
      BY <1>0, <3>2 DEF WindowOK
    <3>6. Cardinality(Later(admitted, now - Duration)) >= Max
      BY <1>0, <1>1, <1>2, <3>4, <3>5, AtLeastLast
    <3>7. AdmittedOK'
      BY <1>0, <3>1, AdmittedAfter
    <3> QED
      BY <1>0, <3>1, <3>3, <3>6, <3>7 DEF LimitInv, RefusedMeansFull, Recent, Later
  <2> QED
    BY <2>1, <2>2
<1> QED
  BY <1>3, <1>4

LEMMA Products ==
    ASSUME NEW a \in Int, NEW b \in Int, NEW c \in Int
    PROVE  /\ a * c \in Int /\ (a + b) * c = a * c + b * c
           /\ (a - b) * c = a * c - b * c
  OBVIOUS

LEMMA ProductMonotonic ==
    ASSUME NEW a \in Nat, NEW b \in Nat, NEW c \in Nat, a <= b
    PROVE  a * c \in Nat /\ a * c <= b * c
  OBVIOUS

\* What a call finds in the bucket.
LEMMA RefillKeeps ==
    ASSUME AdmittedOK, BucketOK
    PROVE  LET T == Refilled(key, now, Max, rateLimitCapacity(Max, Duration))
               n == Len(admitted)
           IN /\ T \in Nat /\ T <= Max * Duration
              /\ T + n * Duration >= Max * Duration
              /\ \A i \in 1 .. n :
                   LET taken == (n - i) * Duration
                       inflow == (now - admitted[i]) * Max
                   IN /\ taken + Duration + T <= Max * Duration + inflow
                      /\ T + taken >= Max * Duration \/ T + taken >= inflow
<1> DEFINE T == Refilled(key, now, Max, rateLimitCapacity(Max, Duration))
           n == Len(admitted)
<1>0. /\ now \in Nat /\ n \in Nat /\ \A i \in 1 .. n : admitted[i] \in Nat
      /\ Max \in Nat /\ Duration \in Nat /\ Max * Duration \in Nat
  BY ConstantsOK, ProductMonotonic DEF AdmittedOK, Times
<1>1. CASE key = NoBucket /\ admitted = <<>>
  <2>1. n = 0 /\ T = Max * Duration
    BY <1>1 DEF Refilled, rateLimitCapacity
  <2> QED
    BY <1>0, <2>1
<1>2. CASE ~(key = NoBucket /\ admitted = <<>>)
  <2>0. /\ key \in [tokens : Nat, last : Nat] /\ key.last <= now
        /\ key.tokens + n * Duration >= Max * Duration
        /\ \A i \in 1 .. n :
             /\ (n - i) * Duration + Duration + key.tokens
                  <= Max * Duration + (key.last - admitted[i]) * Max
             /\ \/ key.tokens + (n - i) * Duration >= Max * Duration
                \/ key.tokens + (n - i) * Duration >= (key.last - admitted[i]) * Max
    BY <1>2 DEF BucketOK
  <2>1. key # NoBucket
    BY <2>0 DEF NoBucket
  <2> DEFINE flow == (now - key.last) * Max
  <2>2. flow \in Nat /\ n * Duration \in Nat /\ key.tokens \in Nat /\ key.last \in Nat
    <3>1. now - key.last \in Nat /\ key.tokens \in Nat /\ key.last \in Nat
      BY <1>0, <2>0
    <3> QED
      BY <1>0, <3>1, ProductMonotonic
  <2>3. T = IF key.tokens + flow < Max * Duration THEN key.tokens + flow
            ELSE Max * Duration
    BY <2>1 DEF Refilled, rateLimitCapacity
  <2>4. T \in Nat /\ T <= Max * Duration /\ T <= key.tokens + flow
        /\ (T = key.tokens + flow \/ T = Max * Duration)
    <3> DEFINE cap == Max * Duration
    <3>1. cap \in Nat /\ flow \in Nat /\ key.tokens \in Nat
          /\ T = IF key.tokens + flow < cap THEN key.tokens + flow ELSE cap
      BY <1>0, <2>2, <2>3
    <3> HIDE DEF flow, T, cap
    <3>2. T \in Nat /\ T <= cap /\ T <= key.tokens + flow
          /\ (T = key.tokens + flow \/ T = cap)
      BY <3>1
    <3> QED
      BY <3>2 DEF cap
  <2>5. T + n * Duration >= Max * Duration
    BY <1>0, <2>0, <2>2, <2>4, SMTT(30)
  <2>6. ASSUME NEW i \in 1 .. n
        PROVE  /\ (n - i) * Duration + Duration + T
                    <= Max * Duration + (now - admitted[i]) * Max
               /\ \/ T + (n - i) * Duration >= Max * Duration
                  \/ T + (n - i) * Duration >= (now - admitted[i]) * Max
    <3> DEFINE was == (key.last - admitted[i]) * Max
               is == (now - admitted[i]) * Max
               taken == (n - i) * Duration
    <3>1. admitted[i] \in Int /\ n - i \in Nat /\ taken \in Nat
      BY <1>0, ProductMonotonic
    <3>2. was \in Int /\ is \in Int /\ is = was + flow
      <4>1. (now - admitted[i]) * Max = now * Max - admitted[i] * Max
        BY <1>0, <3>1, Products
      <4>2. was = key.last * Max - admitted[i] * Max
        BY <1>0, <2>2, <3>1, Products
      <4>3. flow = now * Max - key.last * Max
        BY <1>0, <2>2, Products
      <4>4. now * Max \in Int /\ key.last * Max \in Int /\ admitted[i] * Max \in Int
        BY <1>0, <2>2, <3>1, Products, SMTT(30)
      <4> QED
        BY <4>1, <4>2, <4>3, <4>4
    <3>3. /\ taken + Duration + key.tokens <= Max * Duration + was
          /\ key.tokens + taken >= Max * Duration \/ key.tokens + taken >= was
      BY <2>0
    <3> HIDE DEF was, is, taken, flow, T
    <3>4. /\ taken + Duration + T <= Max * Duration + is
          /\ T + taken >= Max * Duration \/ T + taken >= is
      BY <1>0, <2>2, <2>4, <3>1, <3>2, <3>3, SMTT(30)
    <3> QED
      BY <3>4 DEF was, is, taken
  <2> QED
    BY <2>4, <2>5, <2>6
<1> QED
  BY <1>1, <1>2

\* The bucket: a request pays Duration tokens, or is refused for want of them.
LEMMA BucketKeeps == LimitInv /\ Bucket => LimitInv' /\ RefusedMeansFull'
<1> SUFFICES ASSUME LimitInv, Bucket PROVE LimitInv' /\ RefusedMeansFull'
  OBVIOUS
<1> DEFINE T == Refilled(key, now, Max, rateLimitCapacity(Max, Duration))
           n == Len(admitted)
           full == Max * Duration
           taken(i) == (n - i) * Duration
           inflow(i) == (now - admitted[i]) * Max
<1>0. /\ now' = now /\ now \in Nat /\ limiter' = limiter /\ limiter = "bucket"
      /\ AdmittedOK /\ Times(admitted) /\ Ordered(admitted)
      /\ BucketOK /\ BucketConforms
      /\ \A i \in 1 .. n : admitted[i] <= now
  BY DEF LimitInv, AdmittedOK, Bucket, Answered
<1>1. /\ n \in Nat /\ DOMAIN admitted = 1 .. n /\ \A i \in 1 .. n : admitted[i] \in Nat
      /\ Max \in Nat \ {0} /\ Duration \in Nat \ {0} /\ full \in Nat
      /\ n * Duration \in Nat
  BY <1>0, ConstantsOK, ProductMonotonic DEF Times
<1>2. /\ T \in Nat /\ T <= full
      /\ T + n * Duration >= full
      /\ \A i \in 1 .. n :
           /\ taken(i) + Duration + T <= full + inflow(i)
           /\ T + taken(i) >= full \/ T + taken(i) >= inflow(i)
  BY <1>0, RefillKeeps
<1>3. \A i \in 1 .. n : taken(i) \in Nat /\ inflow(i) \in Nat
  <2> SUFFICES ASSUME NEW i \in 1 .. n PROVE taken(i) \in Nat /\ inflow(i) \in Nat
    OBVIOUS
  <2>1. n - i \in Nat /\ now - admitted[i] \in Nat
    BY <1>0, <1>1
  <2> QED
    BY <1>1, <2>1, ProductMonotonic
<1>4. CASE T >= Duration
  <2>1. /\ key' = [tokens |-> T - Duration, last |-> now]
        /\ admitted' = Append(admitted, now) /\ ~refused'
    BY <1>4 DEF Bucket, Answered, Allow
  <2>2. /\ Len(admitted') = n + 1 /\ AdmittedOK' /\ DOMAIN admitted' = 1 .. n + 1
        /\ \A i \in 1 .. n : admitted'[i] = admitted[i]
        /\ admitted'[n + 1] = now
    BY <1>0, <1>1, <2>1, OrderedAppend, AdmittedAfter
  <2>3. key' \in [tokens : Nat, last : Nat] /\ key'.tokens = T - Duration
        /\ key'.last = now /\ key'.last <= now'
    BY <1>0, <1>1, <1>2, <1>4, <2>1
  <2>4. (n + 1) * Duration = n * Duration + Duration
    BY <1>1, Products
  <2>5. \A i \in 1 .. n : ((n + 1) - i) * Duration = taken(i) + Duration
    <3> SUFFICES ASSUME NEW i \in 1 .. n
                 PROVE  ((n + 1) - i) * Duration = (n - i) * Duration + Duration
      OBVIOUS
    <3>1. (n + 1) - i = (n - i) + 1 /\ n - i \in Int
      BY <1>1
    <3>2. ((n - i) + 1) * Duration = (n - i) * Duration + 1 * Duration
      BY <1>1, <3>1, Products
    <3> QED
      BY <1>1, <3>1, <3>2
  <2>6. \A i \in 1 .. n + 1 :
          /\ admitted'[i] <= now
          /\ ((n + 1) - i) * Duration + Duration + (T - Duration)
               <= full + (now - admitted'[i]) * Max
          /\ \/ (T - Duration) + ((n + 1) - i) * Duration >= full
             \/ (T - Duration) + ((n + 1) - i) * Duration >= (now - admitted'[i]) * Max
    <3> SUFFICES ASSUME NEW i \in 1 .. n + 1
                 PROVE  /\ admitted'[i] <= now
                        /\ ((n + 1) - i) * Duration + Duration + (T - Duration)
                             <= full + (now - admitted'[i]) * Max
                        /\ \/ (T - Duration) + ((n + 1) - i) * Duration >= full
                           \/ (T - Duration) + ((n + 1) - i) * Duration
                                >= (now - admitted'[i]) * Max
      OBVIOUS
    <3>1. CASE i = n + 1
      <4>1. /\ (n + 1) - i = 0 /\ now - admitted'[i] = 0 /\ admitted'[i] = now
            /\ 0 * Duration = 0 /\ 0 * Max = 0
        BY <1>0, <1>1, <2>2, <3>1
      <4>2. ((n + 1) - i) * Duration = 0 /\ (now - admitted'[i]) * Max = 0
        BY <4>1
      <4> HIDE DEF T, full
      <4> QED
        BY <1>0, <1>1, <1>2, <1>4, <4>1, <4>2
    <3>2. CASE i \in 1 .. n
      <4>1. /\ admitted'[i] = admitted[i] /\ admitted[i] <= now
            /\ ((n + 1) - i) * Duration = taken(i) + Duration
            /\ (now - admitted'[i]) * Max = inflow(i)
            /\ taken(i) + Duration + T <= full + inflow(i)
            /\ T + taken(i) >= full \/ T + taken(i) >= inflow(i)
            /\ taken(i) \in Nat /\ inflow(i) \in Nat
        BY <1>0, <1>2, <1>3, <2>2, <2>5, <3>2
      <4> HIDE DEF taken, inflow, T, full
      <4> QED
        BY <1>1, <1>2, <4>1, SMTT(30)
    <3> QED
      BY <1>1, <3>1, <3>2
  <2>7. BucketOK'
    <3>1. key'.tokens + (n + 1) * Duration >= full
      <4> HIDE DEF T, full
      <4> QED
        BY <1>1, <1>2, <2>3, <2>4
    <3> QED
      BY <2>2, <2>3, <2>6, <3>1 DEF BucketOK
  <2>8. BucketConforms'
    <3> SUFFICES ASSUME NEW i \in 1 .. n + 1, NEW j \in 1 .. n + 1, i <= j
                 PROVE  (j - i + 1) * Duration
                          <= (Duration + admitted'[j] - admitted'[i]) * Max
      BY <1>0, <2>2 DEF BucketConforms
    <3>1. CASE j = n + 1
      <4> DEFINE a == admitted'[i]
      <4>1. admitted'[j] = now /\ a \in Nat /\ j - i + 1 = ((n + 1) - i) + 1
            /\ (n + 1) - i \in Int /\ now - a \in Int
            /\ Duration + now - a = Duration + (now - a)
        BY <1>0, <1>1, <2>2, <3>1
      <4>2. (j - i + 1) * Duration = ((n + 1) - i) * Duration + Duration
        <5>1. (((n + 1) - i) + 1) * Duration = ((n + 1) - i) * Duration + 1 * Duration
          BY <1>1, <4>1, Products
        <5>2. 1 * Duration = Duration
          BY <1>1
        <5>3. j - i + 1 = ((n + 1) - i) + 1
          BY <4>1
        <5> QED
          BY <5>1, <5>2, <5>3, Zenon
      <4>3. (Duration + (now - a)) * Max = Duration * Max + (now - a) * Max
        BY <1>1, <4>1, Products
      <4>4. Duration * Max = full
        BY <1>1
      <4>5. ((n + 1) - i) * Duration \in Int /\ (now - a) * Max \in Int
        BY <1>1, <4>1, Products
      <4>6. ((n + 1) - i) * Duration + Duration + (T - Duration)
              <= full + (now - a) * Max
        BY <2>6
      <4> DEFINE x == ((n + 1) - i) * Duration
                 y == (now - a) * Max
      <4>7. x \in Int /\ y \in Int /\ x + Duration + (T - Duration) <= full + y
        BY <4>5, <4>6
      <4>8. x + Duration <= full + y
        <5> HIDE DEF x, y, T, full
        <5> QED
          BY <1>1, <1>2, <1>4, <4>7
      <4> QED
        BY <4>1, <4>2, <4>3, <4>4, <4>8
    <3>2. CASE j \in 1 .. n
      <4>1. i \in 1 .. n
        BY <1>1, <3>2
      <4> QED
        BY <1>0, <1>1, <2>2, <3>2, <4>1 DEF BucketConforms
    <3> QED
      BY <1>1, <3>1, <3>2
  <2> QED
    BY <1>0, <2>1, <2>2, <2>7, <2>8 DEF LimitInv, RefusedMeansFull
<1>5. CASE ~(T >= Duration)
  <2>1. key' = [tokens |-> T, last |-> now] /\ admitted' = admitted /\ refused'
    BY <1>5 DEF Bucket, Answered, Allow
  <2>2. AdmittedOK' /\ BucketConforms'
    BY <1>0, <2>1 DEF AdmittedOK, BucketConforms
  <2>3. /\ key' \in [tokens : Nat, last : Nat] /\ key'.tokens = T
        /\ key'.last = now /\ key'.last <= now'
    BY <1>0, <1>2, <2>1
  <2>4. BucketOK'
    BY <1>0, <1>2, <2>1, <2>3 DEF BucketOK
  <2>5. Max <= n
    <3> SUFFICES ASSUME n < Max PROVE FALSE
      BY <1>1
    <3>1. (n + 1) * Duration <= full /\ (n + 1) * Duration = n * Duration + Duration
      BY <1>1, ProductMonotonic, Products
    <3> HIDE DEF T, full
    <3> QED
      BY <1>1, <1>2, <1>5, <3>1
  <2>6. \A i \in 1 .. n : i > n - Max => admitted[i] > now - Duration
    <3> SUFFICES ASSUME NEW i \in 1 .. n, i > n - Max, admitted[i] <= now - Duration
                 PROVE  FALSE
      BY <1>0, <1>1
    <3>1. (n - i) + 1 \in Nat /\ (n - i) + 1 <= Max /\ n - i \in Int
      BY <1>1
    <3>2. ((n - i) + 1) * Duration <= full
          /\ ((n - i) + 1) * Duration = taken(i) + Duration
      <4>1. ((n - i) + 1) * Duration <= full
        BY <1>1, <3>1, ProductMonotonic
      <4>2. ((n - i) + 1) * Duration = (n - i) * Duration + 1 * Duration
        BY <1>1, <3>1, Products
      <4> QED
        BY <1>1, <4>1, <4>2
    <3>3. Duration <= now - admitted[i] /\ now - admitted[i] \in Nat
      BY <1>0, <1>1
    <3>4. Duration * Max <= inflow(i) /\ Duration * Max = full
      <4>1. Duration * Max <= (now - admitted[i]) * Max
        BY <1>1, <3>3, ProductMonotonic
      <4> QED
        BY <1>1, <4>1
    <3>5. taken(i) \in Nat /\ inflow(i) \in Nat
          /\ (T + taken(i) >= full \/ T + taken(i) >= inflow(i))
          /\ full <= inflow(i) /\ taken(i) + Duration <= full
      BY <1>2, <1>3, <3>2, <3>4
    <3> HIDE DEF T, full, taken, inflow
    <3> QED
      BY <1>1, <1>2, <1>5, <3>5
  <2>7. Cardinality(Later(admitted, now - Duration)) >= Max
    BY <1>0, <1>1, <2>5, <2>6, AtLeastLast
  <2> QED
    BY <1>0, <2>1, <2>2, <2>4, <2>7 DEF LimitInv, RefusedMeansFull, Recent, Later
<1> QED
  BY <1>4, <1>5

LEMMA LimitNext ==
    LimitInv /\ RefusedMeansFull /\ [Next]_vars => LimitInv' /\ RefusedMeansFull'
<1> SUFFICES ASSUME LimitInv, RefusedMeansFull, [Next]_vars
             PROVE  LimitInv' /\ RefusedMeansFull'
  OBVIOUS
<1>1. CASE Tick
  BY <1>1, TickKeeps DEF Tick, RefusedMeansFull
<1>2. CASE clearExpiredItems
  BY <1>2, SweepKeeps DEF clearExpiredItems, RefusedMeansFull
<1>3. CASE UNCHANGED vars
  BY <1>3 DEF vars, LimitInv, AdmittedOK, QueueOK, WindowOK, InWindow, BucketOK,
              BucketConforms, RefusedMeansFull, Recent
<1> QED
  BY <1>1, <1>2, <1>3, QueueKeeps, WindowKeeps, BucketKeeps DEF Next

\* What the invariant says of the numbers.
LEMMA LimitsOf == LimitInv => AtMostMax /\ AtMostTwice /\ BucketConforms
<1> SUFFICES ASSUME LimitInv PROVE AtMostMax /\ AtMostTwice /\ BucketConforms
  OBVIOUS
<1> DEFINE n == Len(admitted)
<1>0. /\ now \in Nat /\ Times(admitted) /\ n \in Nat
      /\ \A i \in 1 .. n : admitted[i] \in Nat
      /\ Max \in Nat /\ Duration \in Nat /\ now - Duration \in Int /\ 2 * Max \in Nat
  BY ConstantsOK DEF LimitInv, AdmittedOK, Times
<1>1. ASSUME limiter = "queue", Duration <= Expiration
      PROVE  Cardinality(Later(admitted, now - Duration)) <= Max
  <2>1. /\ Len(key) \in Nat /\ Len(key) <= Max
        /\ \A j \in 1 .. n : j <= n - Len(key) => admitted[j] <= now - Duration
    BY <1>1 DEF LimitInv, QueueOK, Times
  <2>2. \A j \in 1 .. n : j <= n - Max => admitted[j] <= now - Duration
    BY <1>0, <2>1
  <2> QED
    BY <1>0, <2>2, AtMostLast
<1>2. ASSUME limiter = "window"
      PROVE  Cardinality(Later(admitted, now - Duration)) <= 2 * Max
  <2>1. WindowOK /\ InWindow(key) \in Nat /\ InWindow(key) <= Max
        /\ key.ends \in Nat /\ key.count \in Nat
    BY <1>0, <1>2 DEF LimitInv, WindowOK, InWindow
  <2>2. ASSUME NEW j \in 1 .. n, j <= n - 2 * Max
        PROVE  admitted[j] <= now - Duration
    <3>1. key.count > 0
      BY <1>0, <2>1, <2>2 DEF WindowOK
    <3>2. j <= n - InWindow(key) - Max
      BY <1>0, <2>1, <2>2
    <3>3. admitted[j] < key.ends - Duration - Duration /\ key.ends - Duration <= now
      BY <2>1, <3>1, <3>2 DEF WindowOK
    <3> QED
      BY <1>0, <2>1, <3>3
  <2> QED
    BY <1>0, <2>2, AtMostLast
<1>3. BucketConforms
  <2>1. CASE limiter = "bucket"
    BY <2>1 DEF LimitInv
  <2>2. CASE limiter # "bucket"
    BY <2>2 DEF BucketConforms
  <2> QED
    BY <2>1, <2>2
<1> QED
  BY <1>1, <1>2, <1>3 DEF AtMostMax, AtMostTwice, Recent, Later

-----------------------------------------------------------------------------
(* The limit on successes.                                                 *)

LEMMA SameCardinality == ASSUME NEW S PROVE Model!Cardinality(S) = Cardinality(S)
  BY DEF Model!Cardinality, Cardinality

\* One more time: it counts if it is later.
LEMMA LaterAppend ==
    ASSUME NEW s, Times(s), NEW x \in Nat, NEW t \in Int
    PROVE  /\ Times(Append(s, x))
           /\ Cardinality(Later(Append(s, x), t))
                = Cardinality(Later(s, t)) + (IF x > t THEN 1 ELSE 0)
<1> DEFINE n == Len(s)
           u == Append(s, x)
<1>1. /\ Times(u) /\ n \in Nat /\ Len(u) = n + 1 /\ DOMAIN u = 1 .. n + 1
      /\ DOMAIN s = 1 .. n
      /\ u[n + 1] = x /\ \A i \in 1 .. n : u[i] = s[i]
  BY DEF Times
<1>2. /\ IsFiniteSet(Later(s, t)) /\ Cardinality(Later(s, t)) \in Nat
      /\ Later(s, t) \subseteq 1 .. n
  BY LaterIsFinite
<1>3. CASE x > t
  <2>1. Later(u, t) = Later(s, t) \cup {n + 1} /\ n + 1 \notin Later(s, t)
    BY <1>1, <1>2, <1>3 DEF Later
  <2> HIDE DEF u
  <2> QED
    BY <1>1, <1>2, <1>3, <2>1, FS_AddElement, SMTT(30) DEF u
<1>4. CASE ~(x > t)
  <2>1. Later(u, t) = Later(s, t)
    BY <1>1, <1>4 DEF Later
  <2> QED
    BY <1>1, <1>2, <1>4, <2>1
<1> QED
  BY <1>3, <1>4

\* Moving indices by one does not change how many there are.
LEMMA ShiftSize ==
    ASSUME NEW S, IsFiniteSet(S), S \subseteq Nat
    PROVE  /\ IsFiniteSet({i + 1 : i \in S})
           /\ Cardinality({i + 1 : i \in S}) = Cardinality(S)
<1> DEFINE V == {i + 1 : i \in S}
           f == [i \in S |-> i + 1]
<1>1. f \in Bijection(S, V)
  <2>1. f \in Surjection(S, V)
    BY DEF Surjection
  <2>2. \A a, b \in S : f[a] = f[b] => a = b
    OBVIOUS
  <2> QED
    BY <2>1, <2>2 DEF Bijection, Injection, Surjection, IsInjective
<1>2. ExistsBijection(S, V)
  BY <1>1 DEF ExistsBijection
<1> QED
  BY <1>2, FS_Bijection

LEMMA LaterPrepend ==
    ASSUME NEW s, Times(s), NEW x \in Nat, NEW t \in Int
    PROVE  /\ Times(<<x>> \o s) /\ Len(<<x>> \o s) = Len(s) + 1
           /\ (<<x>> \o s)[1] = x
           /\ \A i \in 1 .. Len(s) : (<<x>> \o s)[i + 1] = s[i]
           /\ Cardinality(Later(<<x>> \o s, t))
                = Cardinality(Later(s, t)) + (IF x > t THEN 1 ELSE 0)
<1> DEFINE n == Len(s)
           u == <<x>> \o s
           moved == {i + 1 : i \in Later(s, t)}
<1>0. /\ u \in Seq(Nat) /\ Len(u) = n + 1 /\ n \in Nat
  BY DEF Times
<1>1. /\ Times(u) /\ DOMAIN u = 1 .. n + 1 /\ DOMAIN s = 1 .. n
  BY <1>0 DEF Times
<1>2. u[1] = x /\ \A i \in 1 .. n : u[i + 1] = s[i]
  BY <1>0 DEF Times
<1>3. /\ IsFiniteSet(Later(s, t)) /\ Cardinality(Later(s, t)) \in Nat
      /\ Later(s, t) \subseteq 1 .. n
  BY LaterIsFinite
<1>4. IsFiniteSet(moved) /\ Cardinality(moved) = Cardinality(Later(s, t))
  <2>1. Later(s, t) \subseteq Nat
    BY <1>3
  <2> QED
    BY <1>3, <2>1, ShiftSize
<1>5. 1 \notin moved
  BY <1>3
<1>6. \A j \in 2 .. n + 1 : j \in Later(u, t) <=> j \in moved
  <2> SUFFICES ASSUME NEW j \in 2 .. n + 1 PROVE j \in Later(u, t) <=> j \in moved
    OBVIOUS
  <2>1. j - 1 \in 1 .. n /\ (j - 1) + 1 = j /\ j \in 1 .. n + 1
    BY <1>0
  <2>2. u[j] = s[j - 1]
    BY <1>2, <2>1
  <2>3. j \in Later(u, t) <=> j - 1 \in Later(s, t)
    BY <1>1, <2>1, <2>2 DEF Later
  <2>4. j \in moved <=> j - 1 \in Later(s, t)
    BY <1>0, <1>3, <2>1
  <2> QED
    BY <2>3, <2>4
<1>7. moved \subseteq 2 .. n + 1 /\ Later(u, t) \subseteq 1 .. n + 1
  BY <1>0, <1>1, <1>3 DEF Later
<1>a. \A j \in 1 .. n + 1 : j = 1 \/ j \in 2 .. n + 1
  BY <1>0
<1>8. CASE x > t
  <2>1. 1 \in Later(u, t)
    BY <1>0, <1>1, <1>2, <1>8 DEF Later
  <2>2. Later(u, t) = moved \cup {1}
    <3> HIDE DEF u, moved
    <3> QED
      BY <1>a, <1>6, <1>7, <2>1
  <2>3. Cardinality(moved \cup {1}) = Cardinality(moved) + 1
    BY <1>4, <1>5, FS_AddElement
  <2> QED
    BY <1>0, <1>1, <1>2, <1>3, <1>4, <1>8, <2>2, <2>3
<1>9. CASE ~(x > t)
  <2>1. 1 \notin Later(u, t)
    BY <1>0, <1>1, <1>2, <1>9 DEF Later
  <2>2. Later(u, t) = moved
    <3> HIDE DEF u, moved
    <3> QED
      BY <1>a, <1>6, <1>7, <2>1
  <2>3. Cardinality(Later(u, t)) = Cardinality(Later(s, t)) + 0
    <3> HIDE DEF u, moved
    <3> QED
      BY <1>3, <1>4, <2>2
  <2> QED
    BY <1>0, <1>1, <1>2, <1>9, <2>3
<1> QED
  BY <1>8, <1>9

Labels == {"arrive", "oldest", "run", "push", "trim", "expire"}
At(label) == {r \in Requests : pc[r] = label}
Pending(t) == {r \in At("push") : stamp[r] > t}

\* The queue of the check, oldest first; the list in Redis, newest first.
ModelTyped ==
    /\ redis \in BOOLEAN /\ together \in BOOLEAN
    /\ clock \in Nat /\ ends \in Nat
    /\ Times(list) /\ Times(check) /\ Times(successes)
    /\ pc \in [Requests -> Labels] /\ stamp \in [Requests -> Nat]
    /\ \A i \in 1 .. Len(successes) : successes[i] <= clock
    /\ \A i \in 1 .. Len(check) : check[i] <= clock
    /\ \A i \in 1 .. Len(list) : list[i] <= clock
    /\ \A r \in Requests : stamp[r] <= clock

\* Who is where: one at a time, unless they come together.
PlacesOK ==
    /\ ~together => \A r, o \in Requests : pc[r] # "arrive" /\ pc[o] # "arrive" => r = o
    /\ \A r \in Requests : pc[r] \notin {"arrive", "run"} => redis

\* The list: newest first, each entry a success of its own.
ListOK ==
    /\ \A i, j \in 1 .. Len(list) : i <= j => list[i] >= list[j]
    /\ \A r \in At("push") :
         /\ \A i \in 1 .. Len(list) : list[i] <= stamp[r]
         /\ together => stamp[r] = clock
    /\ \A r \in At("oldest") : Len(list) >= ModelMax \/ (~together /\ list = <<>>)

EntriesSucceeded ==
    \A t \in Int : Cardinality(Later(list, t)) + Cardinality(Pending(t))
                     <= Cardinality(Later(successes, t))

\* A success of the last period is in the list or about to be, unless the list
\* is full of later ones.
NothingLost ==
    \A t \in Int : t >= clock - ModelDuration =>
      \/ Cardinality(Later(successes, t))
           <= Cardinality(Later(list, t)) + Cardinality(Pending(t))
      \/ Len(list) >= ModelMax /\ list[Len(list)] > t

\* The list is longer than it should be only while it waits to be trimmed, and it
\* outlives its entries.
ListKept ==
    /\ Len(list) <= ModelMax + Cardinality(At("trim"))
    /\ At("trim") \cup At("expire") # {} => list # <<>>
    /\ At("push") \cup At("trim") \cup At("expire") = {} /\ list # <<>> =>
         \A i \in 1 .. Len(successes) : successes[i] + ModelDuration <= ends

RoomForRunning ==
    Cardinality(Later(successes, clock - ModelDuration)) + Cardinality(At("run"))
      <= ModelMax + Cardinality(Requests) - 1

\* In memory: at any time of the last period, what succeeded since or is running
\* was checked since or was running then.
CheckOK ==
    /\ Len(check) <= ModelMax
    /\ \A t \in Int : clock - ModelDuration <= t /\ t <= clock =>
         Cardinality(Later(successes, t)) + Cardinality(At("run"))
           <= Cardinality(Later(check, t)) + Cardinality(Requests)

ModelInv ==
    /\ ModelTyped
    /\ PlacesOK
    /\ redis => ListOK /\ EntriesSucceeded
    /\ redis /\ together => NothingLost /\ ListKept /\ RoomForRunning
    /\ ~redis => CheckOK

LEMMA ModelInitInv == Model!Init => ModelInv
<1> SUFFICES ASSUME Model!Init PROVE ModelInv
  OBVIOUS
<1>0. /\ list = <<>> /\ check = <<>> /\ successes = <<>> /\ clock = 0 /\ ends = 0
      /\ pc = [r \in Requests |-> "arrive"] /\ stamp = [r \in Requests |-> 0]
      /\ redis \in BOOLEAN /\ together \in BOOLEAN
  BY DEF Model!Init
<1>1. Times(<<>>) /\ Len(<<>>) = 0 /\ DOMAIN <<>> = {}
  BY DEF Times
<1>2. \A label \in Labels : label # "arrive" => At(label) = {}
  BY <1>0 DEF At, Labels
<1>3. /\ At("push") = {} /\ At("oldest") = {} /\ At("run") = {} /\ At("trim") = {}
      /\ At("expire") = {}
  BY <1>2 DEF Labels
<1>4. \A t \in Int : Pending(t) = {} /\ Later(<<>>, t) = {}
  BY <1>1, <1>3 DEF Pending, Later
<1>5. /\ Cardinality({}) = 0 /\ Cardinality(Requests) \in Nat \ {0}
      /\ ModelMax \in Nat \ {0} /\ ModelDuration \in Nat
  BY ModelConstantsOK, FS_EmptySet, FS_CardinalityType
<1>a. \A t \in Int : /\ Cardinality(Later(list, t)) = 0 /\ Cardinality(Pending(t)) = 0
                      /\ Cardinality(Later(successes, t)) = 0
                      /\ Cardinality(Later(check, t)) = 0
  BY <1>0, <1>4, <1>5
<1>b. Cardinality(At("trim")) = 0 /\ Cardinality(At("run")) = 0
  BY <1>3, <1>5
<1>c. Len(list) = 0 /\ Len(check) = 0
  BY <1>0, <1>1
<1>6. ModelTyped
  BY <1>0, <1>1 DEF ModelTyped, Labels
<1>7. PlacesOK
  BY <1>0 DEF PlacesOK
<1>8. ListOK /\ EntriesSucceeded /\ NothingLost
  BY <1>3, <1>a, <1>c DEF ListOK, EntriesSucceeded, NothingLost
<1>9. ListKept
  BY <1>0, <1>3, <1>5, <1>b, <1>c DEF ListKept
<1>10. RoomForRunning
  <2>1. Later(successes, clock - ModelDuration) = {}
    BY <1>0, <1>4, <1>5
  <2> QED
    BY <1>3, <1>5, <2>1 DEF RoomForRunning
<1>11. CheckOK
  BY <1>5, <1>a, <1>b, <1>c DEF CheckOK
<1> QED
  BY <1>6, <1>7, <1>8, <1>9, <1>10, <1>11 DEF ModelInv

\* The requests at a place are finitely many.
LEMMA PlacesFinite ==
    /\ Cardinality(Requests) \in Nat
    /\ \A label : /\ IsFiniteSet(At(label)) /\ Cardinality(At(label)) \in Nat
                  /\ Cardinality(At(label)) <= Cardinality(Requests)
    /\ \A t : /\ IsFiniteSet(Pending(t)) /\ Cardinality(Pending(t)) \in Nat
              /\ Cardinality(Pending(t)) <= Cardinality(At("push"))
<1>1. IsFiniteSet(Requests) /\ Cardinality(Requests) \in Nat
  BY ModelConstantsOK, FS_CardinalityType
<1>2. ASSUME NEW label
      PROVE  /\ IsFiniteSet(At(label)) /\ Cardinality(At(label)) \in Nat
             /\ Cardinality(At(label)) <= Cardinality(Requests)
  <2>1. At(label) \in SUBSET Requests
    BY DEF At
  <2> QED
    BY <1>1, <2>1, FS_Subset, FS_CardinalityType
<1>3. ASSUME NEW t
      PROVE  /\ IsFiniteSet(Pending(t)) /\ Cardinality(Pending(t)) \in Nat
             /\ Cardinality(Pending(t)) <= Cardinality(At("push"))
  <2>1. Pending(t) \in SUBSET At("push")
    BY DEF Pending
  <2> QED
    BY <1>2, <2>1, FS_Subset, FS_CardinalityType
<1> QED
  BY <1>1, <1>2, <1>3

\* A request goes from one place to another.
LEMMA Moves ==
    ASSUME pc \in [Requests -> Labels], NEW r \in Requests,
           NEW from \in Labels, NEW to \in Labels, from # to, pc[r] = from,
           pc' = [pc EXCEPT ![r] = to]
    PROVE  /\ At(from)' = At(from) \ {r} /\ r \in At(from)
           /\ At(to)' = At(to) \cup {r} /\ r \notin At(to)
           /\ \A l : l # from /\ l # to => At(l)' = At(l)
           /\ Cardinality(At(from)') = Cardinality(At(from)) - 1
           /\ Cardinality(At(to)') = Cardinality(At(to)) + 1
           /\ pc' \in [Requests -> Labels] /\ pc'[r] = to
           /\ \A o \in Requests : o # r => pc'[o] = pc[o]
<1>1. /\ At(from)' = At(from) \ {r} /\ r \in At(from)
      /\ At(to)' = At(to) \cup {r} /\ r \notin At(to)
  BY DEF At
<1>2. \A l : l # from /\ l # to => At(l)' = At(l)
  BY DEF At
<1>3. /\ Cardinality(At(from)') = Cardinality(At(from)) - 1
      /\ Cardinality(At(to)') = Cardinality(At(to)) + 1
  <2>1. IsFiniteSet(At(from)) /\ IsFiniteSet(At(to))
    BY PlacesFinite
  <2>2. Cardinality(At(from) \ {r}) = Cardinality(At(from)) - 1
    BY <1>1, <2>1, FS_RemoveElement
  <2>3. Cardinality(At(to) \cup {r}) = Cardinality(At(to)) + 1
    BY <1>1, <2>1, FS_AddElement
  <2> QED
    BY <1>1, <2>2, <2>3
<1> QED
  BY <1>1, <1>2, <1>3

\* Places of three kinds share no request.
LEMMA PlacesApart ==
    ASSUME NEW A \in SUBSET Requests, NEW B \in SUBSET Requests, NEW C \in SUBSET Requests,
           A \cap B = {}, A \cap C = {}, B \cap C = {}
    PROVE  Cardinality(A) + Cardinality(B) + Cardinality(C) <= Cardinality(Requests)
<1> DEFINE AB == A \cup B
           ABC == AB \cup C
<1>1. AB \cap C = {} /\ ABC \in SUBSET Requests
  OBVIOUS
<1>0. IsFiniteSet(A) /\ IsFiniteSet(B) /\ IsFiniteSet(C)
  BY ModelConstantsOK, FS_Subset
<1>2. IsFiniteSet(AB) /\ Cardinality(AB) = Cardinality(A) + Cardinality(B) - 0
  <2>1. IsFiniteSet(AB) /\ Cardinality(AB)
          = Cardinality(A) + Cardinality(B) - Cardinality(A \cap B)
    BY <1>0, FS_Union
  <2> QED
    BY <2>1, FS_EmptySet
<1>3. IsFiniteSet(ABC) /\ Cardinality(ABC) = Cardinality(AB) + Cardinality(C) - 0
  <2>1. IsFiniteSet(ABC) /\ Cardinality(ABC)
          = Cardinality(AB) + Cardinality(C) - Cardinality(AB \cap C)
    BY <1>0, <1>2, FS_Union
  <2> QED
    BY <1>1, <2>1, FS_EmptySet
<1>4. Cardinality(ABC) <= Cardinality(Requests)
  BY <1>1, ModelConstantsOK, FS_Subset
<1>5. Cardinality(A) \in Nat /\ Cardinality(B) \in Nat /\ Cardinality(C) \in Nat
  BY <1>0, FS_CardinalityType
<1> QED
  BY <1>2, <1>3, <1>4, <1>5

LEMMA ApartAfter ==
    Cardinality(At("push")') + Cardinality(At("run")') + Cardinality(At("trim")')
      <= Cardinality(Requests)
<1>1. /\ At("push")' \in SUBSET Requests /\ At("run")' \in SUBSET Requests
      /\ At("trim")' \in SUBSET Requests
      /\ At("push")' \cap At("run")' = {} /\ At("push")' \cap At("trim")' = {}
      /\ At("run")' \cap At("trim")' = {}
  BY DEF At
<1> QED
  BY <1>1, PlacesApart

\* The numbers that go with the invariant.
LEMMA ModelNumbers ==
    ASSUME ModelTyped
    PROVE  /\ ModelMax \in Nat \ {0} /\ ModelDuration \in Nat /\ clock \in Nat
           /\ Cardinality(Requests) \in Nat /\ clock - ModelDuration \in Int
           /\ Len(list) \in Nat /\ Len(check) \in Nat /\ Len(successes) \in Nat
           /\ \A i \in 1 .. Len(list) : list[i] \in Nat
           /\ \A i \in 1 .. Len(successes) : successes[i] \in Nat
           /\ \A i \in 1 .. Len(check) : check[i] \in Nat
           /\ \A t \in Int : /\ Cardinality(Later(list, t)) \in Nat
                             /\ Cardinality(Later(successes, t)) \in Nat
                             /\ Cardinality(Later(check, t)) \in Nat
<1>1. /\ ModelMax \in Nat \ {0} /\ ModelDuration \in Nat /\ clock \in Nat
      /\ Cardinality(Requests) \in Nat /\ clock - ModelDuration \in Int
  BY ModelConstantsOK, PlacesFinite DEF ModelTyped
<1>2. Times(list) /\ Times(check) /\ Times(successes)
  BY DEF ModelTyped
<1>3. /\ Len(list) \in Nat /\ Len(check) \in Nat /\ Len(successes) \in Nat
      /\ \A i \in 1 .. Len(list) : list[i] \in Nat
      /\ \A i \in 1 .. Len(successes) : successes[i] \in Nat
      /\ \A i \in 1 .. Len(check) : check[i] \in Nat
  BY <1>2 DEF Times
<1> QED
  BY <1>1, <1>2, <1>3, LaterIsFinite

LEMMA LaterMonotone ==
    ASSUME NEW s, Times(s), NEW t \in Int, NEW u \in Int, t <= u
    PROVE  Cardinality(Later(s, u)) <= Cardinality(Later(s, t))
<1>1. DOMAIN s = 1 .. Len(s) /\ \A i \in 1 .. Len(s) : s[i] \in Nat
  BY DEF Times
<1>2. Later(s, u) \in SUBSET Later(s, t)
  BY <1>1 DEF Later
<1> QED
  BY <1>2, LaterIsFinite, FS_Subset

LEMMA LaterNone ==
    ASSUME NEW s, Times(s), NEW t \in Int, \A i \in 1 .. Len(s) : s[i] <= t
    PROVE  Cardinality(Later(s, t)) = 0
<1>1. DOMAIN s = 1 .. Len(s) /\ \A i \in 1 .. Len(s) : s[i] \in Nat
  BY DEF Times
<1>2. Later(s, t) = {}
  BY <1>1 DEF Later
<1> QED
  BY <1>2, FS_EmptySet

LEMMA ModelTickKeeps ==
    ASSUME ModelInv, Model!Tick, redis' = redis, together' = together
    PROVE  ModelInv'
<1>0. /\ clock' = clock + 1 /\ list' = (IF clock + 1 >= ends THEN <<>> ELSE list)
      /\ UNCHANGED <<ends, check, pc, stamp, successes>>
      /\ together => \A r \in Requests : pc[r] \notin {"oldest", "push", "trim", "expire"}
  BY DEF Model!Tick, Model!Between
<1>1. ModelTyped /\ PlacesOK
  BY DEF ModelInv
<1>2. /\ ModelMax \in Nat \ {0} /\ ModelDuration \in Nat /\ clock \in Nat /\ ends \in Nat
      /\ Len(list) \in Nat /\ Len(successes) \in Nat
      /\ \A i \in 1 .. Len(list) : list[i] \in Nat
      /\ \A i \in 1 .. Len(successes) : successes[i] \in Nat /\ successes[i] <= clock
      /\ \A i \in 1 .. Len(check) : check[i] \in Nat
      /\ Times(list) /\ Times(check) /\ Times(successes)
  BY <1>1, ModelNumbers DEF ModelTyped
<1>3. Times(<<>>) /\ Len(<<>>) = 0 /\ \A t \in Int : Cardinality(Later(<<>>, t)) = 0
  <2>1. Times(<<>>) /\ Len(<<>>) = 0
    BY DEF Times
  <2> QED
    BY <2>1, LaterNone
<1>4. list' = list \/ (list' = <<>> /\ clock + 1 >= ends)
  BY <1>0
<1>5. (\A l : At(l)' = At(l)) /\ (\A t : Pending(t)' = Pending(t))
  BY <1>0 DEF At, Pending
<1>6. ModelTyped'
  BY <1>0, <1>1, <1>2, <1>3, <1>4 DEF ModelTyped
<1>7. PlacesOK'
  BY <1>0, <1>1 DEF PlacesOK
<1>8. ASSUME together
      PROVE  At("oldest") = {} /\ At("push") = {} /\ At("trim") = {} /\ At("expire") = {}
  BY <1>0, <1>8 DEF At
<1>9. ASSUME redis PROVE ListOK' /\ EntriesSucceeded'
  <2>1. ListOK /\ EntriesSucceeded
    BY <1>9 DEF ModelInv
  <2>2. ListOK'
    <3>1. \A i, j \in 1 .. Len(list') : i <= j => list'[i] >= list'[j]
      BY <1>2, <1>3, <1>4, <2>1 DEF ListOK
    <3>2. ASSUME NEW r \in At("push")'
          PROVE  /\ \A i \in 1 .. Len(list') : list'[i] <= stamp'[r]
                 /\ together' => stamp'[r] = clock'
      <4>1. r \in At("push") /\ ~together /\ stamp' = stamp
        BY <1>0, <1>5, <1>8, <3>2
      <4> QED
        BY <1>2, <1>3, <1>4, <2>1, <4>1 DEF ListOK
    <3>3. ASSUME NEW r \in At("oldest")'
          PROVE  Len(list') >= ModelMax \/ (~together' /\ list' = <<>>)
      BY <1>4, <1>5, <1>8, <2>1, <3>3 DEF ListOK
    <3> QED
      BY <3>1, <3>2, <3>3 DEF ListOK
  <2>3. ASSUME NEW t \in Int
        PROVE  Cardinality(Later(list', t)) + Cardinality(Pending(t)')
                 <= Cardinality(Later(successes', t))
    <3>1. /\ Cardinality(Later(list, t)) + Cardinality(Pending(t))
               <= Cardinality(Later(successes, t))
          /\ Cardinality(Later(list, t)) \in Nat /\ Cardinality(Pending(t)) \in Nat
          /\ Cardinality(Later(successes, t)) \in Nat
      BY <1>1, <2>1, ModelNumbers, PlacesFinite DEF EntriesSucceeded
    <3>2. Cardinality(Later(list', t)) = Cardinality(Later(list, t))
          \/ Cardinality(Later(list', t)) = 0
      BY <1>3, <1>4
    <3>3. Pending(t)' = Pending(t) /\ successes' = successes
      BY <1>0, <1>5
    <3> QED
      BY <3>1, <3>2, <3>3
  <2> QED
    BY <2>2, <2>3 DEF EntriesSucceeded
<1>10. ASSUME redis, together PROVE NothingLost' /\ ListKept' /\ RoomForRunning'
  <2>1. NothingLost /\ ListKept /\ RoomForRunning
    BY <1>10 DEF ModelInv
  <2>2. NothingLost'
    <3> SUFFICES ASSUME NEW t \in Int, t >= clock' - ModelDuration
                 PROVE  \/ Cardinality(Later(successes', t))
                             <= Cardinality(Later(list', t)) + Cardinality(Pending(t)')
                        \/ Len(list') >= ModelMax /\ list'[Len(list')] > t
      BY DEF NothingLost
    <3>1. t >= clock - ModelDuration
      BY <1>0, <1>2
    <3>2. CASE list' = list
      BY <1>0, <1>5, <2>1, <3>1, <3>2 DEF NothingLost
    <3>3. CASE list' # list
      <4>1. list # <<>> /\ list' = <<>> /\ clock + 1 >= ends
        BY <1>4, <3>3
      <4>2. \A i \in 1 .. Len(successes) : successes[i] + ModelDuration <= ends
        BY <1>8, <1>10, <2>1, <4>1 DEF ListKept
      <4>3. \A i \in 1 .. Len(successes) : successes[i] <= t
        BY <1>0, <1>2, <4>1, <4>2
      <4>4. Cardinality(Later(successes, t)) = 0
        BY <1>2, <4>3, LaterNone
      <4>5. Cardinality(Later(list', t)) = 0 /\ Cardinality(Pending(t)) \in Nat
        BY <1>3, <4>1, PlacesFinite
      <4> QED
        BY <1>0, <1>5, <4>4, <4>5
    <3> QED
      BY <3>2, <3>3
  <2>3. ListKept'
    <3>1. Len(list') <= ModelMax + Cardinality(At("trim")')
      BY <1>2, <1>3, <1>4, <1>5, <2>1, PlacesFinite DEF ListKept
    <3>2. At("trim")' \cup At("expire")' = {}
      BY <1>5, <1>8, <1>10
    <3>3. ASSUME list' # <<>>
          PROVE  \A i \in 1 .. Len(successes') : successes'[i] + ModelDuration <= ends'
      BY <1>0, <1>4, <1>8, <1>10, <2>1, <3>3 DEF ListKept
    <3> QED
      BY <3>1, <3>2, <3>3 DEF ListKept
  <2>4. RoomForRunning'
    <3>1. Cardinality(Later(successes, clock' - ModelDuration))
            <= Cardinality(Later(successes, clock - ModelDuration))
      <4>1. clock - ModelDuration \in Int /\ clock' - ModelDuration \in Int
            /\ clock - ModelDuration <= clock' - ModelDuration
        BY <1>0, <1>2
      <4> QED
        BY <1>2, <4>1, LaterMonotone
    <3>2. /\ Cardinality(Later(successes, clock' - ModelDuration)) \in Nat
          /\ Cardinality(Later(successes, clock - ModelDuration)) \in Nat
          /\ Cardinality(At("run")) \in Nat /\ Cardinality(Requests) \in Nat
      <4>1. clock - ModelDuration \in Int /\ clock' - ModelDuration \in Int
        BY <1>0, <1>2
      <4> QED
        BY <1>1, <4>1, ModelNumbers, PlacesFinite
    <3>3. Cardinality(Later(successes, clock - ModelDuration)) + Cardinality(At("run"))
            <= ModelMax + Cardinality(Requests) - 1
      BY <2>1 DEF RoomForRunning
    <3>4. Cardinality(Later(successes, clock' - ModelDuration)) + Cardinality(At("run"))
            <= ModelMax + Cardinality(Requests) - 1
      BY <1>2, <3>1, <3>2, <3>3
    <3> QED
      BY <1>0, <1>5, <3>4 DEF RoomForRunning
  <2> QED
    BY <2>2, <2>3, <2>4
<1>11. ASSUME ~redis PROVE CheckOK'
  <2>1. CheckOK
    BY <1>11 DEF ModelInv
  <2>2. ASSUME NEW t \in Int, clock' - ModelDuration <= t, t <= clock'
        PROVE  Cardinality(Later(successes, t)) + Cardinality(At("run"))
                 <= Cardinality(Later(check, t)) + Cardinality(Requests)
    <3>1. CASE t <= clock
      <4>1. clock - ModelDuration <= t
        BY <1>0, <1>2, <2>2
      <4> QED
        BY <2>1, <3>1, <4>1 DEF CheckOK
    <3>2. CASE t > clock
      <4>1. \A i \in 1 .. Len(successes) : successes[i] <= t
        BY <1>2, <3>2
      <4>2. Cardinality(Later(successes, t)) = 0
        BY <1>2, <4>1, LaterNone
      <4>3. /\ Cardinality(At("run")) \in Nat /\ Cardinality(Requests) \in Nat
            /\ Cardinality(At("run")) <= Cardinality(Requests)
            /\ Cardinality(Later(check, t)) \in Nat
        BY <1>1, ModelNumbers, PlacesFinite
      <4> QED
        BY <4>2, <4>3
    <3> QED
      BY <1>2, <3>1, <3>2
  <2> QED
    BY <1>0, <1>5, <2>1, <2>2 DEF CheckOK
<1> QED
  BY <1>6, <1>7, <1>9, <1>10, <1>11 DEF ModelInv

\* A request moves, and neither comes to the push nor leaves it.
LEMMA MoveKeeps ==
    ASSUME ModelInv, NEW r \in Requests, NEW from \in Labels, NEW to \in Labels,
           from # to, pc[r] = from, pc' = [pc EXCEPT ![r] = to],
           from # "push", to # "push",
           from = "arrive" => together \/ \A o \in Requests : pc[o] = "arrive",
           to \notin {"arrive", "run"} => redis,
           to = "oldest" => Len(list) >= ModelMax,
           ends' \in Nat,
           UNCHANGED <<redis, together, clock, list, check, stamp, successes>>
    PROVE  /\ ModelTyped' /\ PlacesOK'
           /\ redis => ListOK' /\ EntriesSucceeded'
           /\ redis /\ together => NothingLost'
<1>1. ModelTyped /\ PlacesOK
  BY DEF ModelInv
<1>2. pc \in [Requests -> Labels]
  BY <1>1 DEF ModelTyped
<1>3. /\ pc' \in [Requests -> Labels] /\ pc'[r] = to
      /\ \A o \in Requests : o # r => pc'[o] = pc[o]
      /\ \A l : l # from /\ l # to => At(l)' = At(l)
      /\ At(from)' = At(from) \ {r} /\ At(to)' = At(to) \cup {r}
  BY <1>2, Moves
<1>4. At("push")' = At("push") /\ \A t : Pending(t)' = Pending(t)
  BY <1>3 DEF Pending
<1>5. ModelTyped'
  BY <1>1, <1>3 DEF ModelTyped
<1>6. PlacesOK'
  <2>1. ASSUME ~together, NEW a \in Requests, NEW b \in Requests,
               pc'[a] # "arrive", pc'[b] # "arrive"
        PROVE  a = b
    <3>1. CASE from = "arrive"
      BY <1>3, <2>1, <3>1
    <3>2. CASE from # "arrive"
      BY <1>1, <1>3, <2>1, <3>2 DEF PlacesOK
    <3> QED
      BY <3>1, <3>2
  <2>2. ASSUME NEW a \in Requests, pc'[a] \notin {"arrive", "run"}
        PROVE  redis
    BY <1>1, <1>3, <2>2 DEF PlacesOK
  <2> QED
    BY <2>1, <2>2 DEF PlacesOK
<1>7. ASSUME redis PROVE ListOK' /\ EntriesSucceeded'
  <2>1. ListOK /\ EntriesSucceeded
    BY <1>7 DEF ModelInv
  <2>2. ASSUME NEW a \in At("oldest")'
        PROVE  Len(list) >= ModelMax \/ (~together /\ list = <<>>)
    <3>1. CASE to = "oldest"
      BY <3>1
    <3>2. CASE to # "oldest"
      <4>1. a \in At("oldest")
        BY <1>3, <2>2, <3>2
      <4> QED
        BY <2>1, <4>1 DEF ListOK
    <3> QED
      BY <3>1, <3>2
  <2>3. ListOK'
    BY <1>4, <2>1, <2>2 DEF ListOK
  <2>4. EntriesSucceeded'
    BY <1>4, <2>1 DEF EntriesSucceeded
  <2> QED
    BY <2>3, <2>4
<1>8. ASSUME redis, together PROVE NothingLost'
  BY <1>4, <1>8 DEF ModelInv, NothingLost
<1> QED
  BY <1>5, <1>6, <1>7, <1>8

LEMMA LaterAtMostLength ==
    ASSUME NEW s, Times(s), NEW t \in Int
    PROVE  Cardinality(Later(s, t)) <= Len(s)
<1>1. Len(s) \in Nat
  BY DEF Times
<1>2. \A i \in 1 .. Len(s) : i <= Len(s) - Len(s) => s[i] <= t
  BY <1>1
<1> QED
  BY <1>1, <1>2, AtMostLast

LEMMA CheckLengthKeeps ==
    ASSUME ModelInv, NEW r \in Requests, Model!CheckLength(r),
           redis' = redis, together' = together
    PROVE  ModelInv'
<1> DEFINE t == clock - ModelDuration
<1>2. ModelTyped /\ PlacesOK /\ pc \in [Requests -> Labels] /\ ends \in Nat
      /\ Times(list) /\ Times(successes)
  BY DEF ModelInv, ModelTyped
<1>4. ModelMax \in Nat \ {0} /\ Len(list) \in Nat /\ t \in Int
  BY <1>2, ModelNumbers
<1>1. PICK to \in {"run", "oldest"} :
        /\ redis /\ pc[r] = "arrive" /\ pc' = [pc EXCEPT ![r] = to]
        /\ together \/ \A o \in Requests : pc[o] = "arrive"
        /\ UNCHANGED <<clock, list, ends, check, stamp, successes>>
        /\ to = "oldest" => Len(list) >= ModelMax
        /\ to = "run" => Len(list) < ModelMax
  <2>0. /\ redis /\ pc[r] = "arrive"
        /\ pc' = [pc EXCEPT ![r] = IF Len(list) < ModelMax THEN "run" ELSE "oldest"]
        /\ together \/ \A o \in Requests : pc[o] = "arrive"
        /\ UNCHANGED <<clock, list, ends, check, stamp, successes>>
    BY DEF Model!CheckLength, Model!Arrives, Model!Goto
  <2>1. CASE Len(list) < ModelMax
    <3> WITNESS "run" \in {"run", "oldest"}
    <3> QED
      BY <2>0, <2>1
  <2>2. CASE ~(Len(list) < ModelMax)
    <3> WITNESS "oldest" \in {"run", "oldest"}
    <3> QED
      BY <1>4, <2>0, <2>2
  <2> QED
    BY <2>1, <2>2
<1>3. to \in Labels /\ "arrive" \in Labels /\ to \notin {"arrive", "push", "trim", "expire"}
  BY DEF Labels
<1>5. /\ ModelTyped' /\ PlacesOK' /\ ListOK' /\ EntriesSucceeded'
      /\ redis /\ together => NothingLost'
  BY <1>1, <1>2, <1>3, <1>4, MoveKeeps, ZenonT(60)
<1>6. /\ \A l : l # "arrive" /\ l # to => At(l)' = At(l)
      /\ Cardinality(At(to)') = Cardinality(At(to)) + 1
      /\ At(to)' = At(to) \cup {r}
  BY <1>1, <1>2, <1>3, Moves
<1>7. ASSUME together PROVE ListKept' /\ RoomForRunning'
  <2>1. NothingLost /\ ListKept /\ RoomForRunning
    BY <1>1, <1>7 DEF ModelInv
  <2>2. /\ At("push")' = At("push") /\ At("trim")' = At("trim")
        /\ At("expire")' = At("expire")
    BY <1>3, <1>6
  <2>3. ListKept'
    BY <1>1, <2>1, <2>2 DEF ListKept
  <2>4. CASE to = "oldest"
    <3>1. At("run")' = At("run")
      BY <1>6, <2>4
    <3> QED
      BY <1>1, <2>1, <2>3, <3>1 DEF RoomForRunning
  <2>5. CASE to = "run"
    <3>1. Len(list) < ModelMax
      BY <1>1, <2>5
    <3>2. Cardinality(Later(successes, t))
            <= Cardinality(Later(list, t)) + Cardinality(Pending(t))
      BY <1>4, <2>1, <3>1 DEF NothingLost
    <3>3. Cardinality(Later(list, t)) <= Len(list)
      BY <1>2, <1>4, LaterAtMostLength
    <3>4. /\ Cardinality(Pending(t)) <= Cardinality(At("push"))
          /\ Cardinality(Pending(t)) \in Nat /\ Cardinality(At("push")) \in Nat
          /\ Cardinality(Requests) \in Nat
          /\ Cardinality(At("run")) \in Nat
          /\ Cardinality(At("trim")) \in Nat
      BY PlacesFinite
    <3>5. /\ Cardinality(Later(list, t)) \in Nat /\ Cardinality(Later(successes, t)) \in Nat
      BY <1>2, <1>4, ModelNumbers
    <3>6. Cardinality(At("push")) + (Cardinality(At("run")) + 1) + Cardinality(At("trim"))
            <= Cardinality(Requests)
      <4>1. Cardinality(At("push")') + Cardinality(At("run")') + Cardinality(At("trim")')
              <= Cardinality(Requests)
        BY ApartAfter
      <4> QED
        BY <1>6, <2>2, <2>5, <4>1
    <3>7. Cardinality(Later(successes, t)) + (Cardinality(At("run")) + 1)
            <= ModelMax + Cardinality(Requests) - 1
      <4> HIDE DEF t
      <4> QED
        BY <1>4, <3>1, <3>2, <3>3, <3>4, <3>5, <3>6, SMTT(30)
    <3> QED
      BY <1>1, <1>6, <2>3, <2>5, <3>7 DEF RoomForRunning
  <2> QED
    BY <2>4, <2>5
<1> QED
  BY <1>1, <1>5, <1>7 DEF ModelInv

LEMMA LaterAll ==
    ASSUME NEW s, Times(s), NEW t \in Int, \A i \in 1 .. Len(s) : s[i] > t
    PROVE  Cardinality(Later(s, t)) = Len(s)
<1>1. Len(s) \in Nat
  BY DEF Times
<1>2. Cardinality(Later(s, t)) >= Len(s)
  BY <1>1, AtLeastLast
<1> QED
  BY <1>1, <1>2, LaterAtMostLength, LaterIsFinite

\* A step that moves a request and leaves the list, and what succeeded, alone.
LEMMA QuietMoveKeeps ==
    ASSUME ModelInv, NEW r \in Requests, NEW from \in {"oldest", "run", "expire"},
           pc[r] = from, pc' = [pc EXCEPT ![r] = "arrive"],
           ends' = ends \/ ends' = clock + ModelDuration,
           from = "expire" /\ list # <<>> => ends' = clock + ModelDuration,
           UNCHANGED <<redis, together, clock, list, check, stamp, successes>>
    PROVE  ModelInv'
<1>1. ModelTyped /\ PlacesOK /\ pc \in [Requests -> Labels] /\ ends \in Nat
      /\ Times(list) /\ Times(successes)
      /\ \A i \in 1 .. Len(successes) : successes[i] <= clock
  BY DEF ModelInv, ModelTyped
<1>2. /\ from \in Labels /\ "arrive" \in Labels /\ from # "arrive" /\ from # "push"
      /\ from # "trim"
  BY DEF Labels
<1>3. /\ ModelDuration \in Nat /\ clock \in Nat /\ ends' \in Nat /\ ModelMax \in Nat
      /\ Len(successes) \in Nat /\ \A i \in 1 .. Len(successes) : successes[i] \in Nat
      /\ clock - ModelDuration \in Int
  <2>1. /\ ModelDuration \in Nat /\ clock \in Nat /\ ModelMax \in Nat
        /\ Len(successes) \in Nat /\ \A i \in 1 .. Len(successes) : successes[i] \in Nat
        /\ clock - ModelDuration \in Int
    BY <1>1, ModelNumbers
  <2> QED
    BY <1>1, <2>1
<1>4. /\ ModelTyped' /\ PlacesOK'
      /\ redis => ListOK' /\ EntriesSucceeded'
      /\ redis /\ together => NothingLost'
  BY <1>1, <1>2, <1>3, MoveKeeps
<1>5. /\ \A l : l # "arrive" /\ l # from => At(l)' = At(l)
      /\ At(from)' = At(from) \ {r} /\ r \in At(from)
      /\ Cardinality(At(from)') = Cardinality(At(from)) - 1
  BY <1>1, <1>2, Moves
<1>6. At("push")' = At("push") /\ At("trim")' = At("trim")
  BY <1>2, <1>5
<1>7. /\ Cardinality(At("run")) \in Nat /\ Cardinality(At(from)) \in Nat
      /\ Cardinality(Requests) \in Nat
      /\ Cardinality(At("run")') = Cardinality(At("run"))
         \/ Cardinality(At("run")') = Cardinality(At("run")) - 1
  <2>1. CASE from = "run"
    BY <1>5, <2>1, PlacesFinite
  <2>2. CASE from # "run"
    BY <1>5, <2>2, PlacesFinite
  <2> QED
    BY <2>1, <2>2
<1>8. ASSUME redis, together PROVE ListKept' /\ RoomForRunning'
  <2>1. ListKept /\ RoomForRunning
    BY <1>8 DEF ModelInv
  <2>2. At("trim")' \cup At("expire")' # {} => list' # <<>>
    BY <1>5, <1>6, <2>1 DEF ListKept
  <2>3. ASSUME At("push")' \cup At("trim")' \cup At("expire")' = {}, list' # <<>>,
               NEW i \in 1 .. Len(successes)
        PROVE  successes[i] + ModelDuration <= ends'
    <3>1. CASE ends' = clock + ModelDuration
      BY <1>1, <1>3, <2>3, <3>1
    <3>2. CASE ends' # clock + ModelDuration
      <4>1. from # "expire" /\ ends' = ends
        BY <2>3, <3>2
      <4>2. At("expire") = {} /\ At("push") = {} /\ At("trim") = {}
        BY <1>2, <1>5, <1>6, <2>3, <4>1
      <4> QED
        BY <2>1, <2>3, <4>1, <4>2 DEF ListKept
    <3> QED
      BY <3>1, <3>2
  <2>4. ListKept'
    BY <1>6, <2>1, <2>2, <2>3 DEF ListKept
  <2>5. RoomForRunning'
    <3>1. Cardinality(Later(successes, clock - ModelDuration)) \in Nat
      BY <1>1, <1>3, ModelNumbers
    <3>2. Cardinality(Later(successes, clock - ModelDuration)) + Cardinality(At("run"))
            <= ModelMax + Cardinality(Requests) - 1
      BY <2>1 DEF RoomForRunning
    <3>3. Cardinality(Later(successes, clock - ModelDuration)) + Cardinality(At("run")')
            <= ModelMax + Cardinality(Requests) - 1
      BY <1>3, <1>7, <3>1, <3>2
    <3> QED
      BY <3>3 DEF RoomForRunning
  <2> QED
    BY <2>4, <2>5
<1>9. ASSUME ~redis PROVE CheckOK'
  <2>1. CheckOK
    BY <1>9 DEF ModelInv
  <2>2. ASSUME NEW t \in Int, clock - ModelDuration <= t, t <= clock
        PROVE  Cardinality(Later(successes, t)) + Cardinality(At("run")')
                 <= Cardinality(Later(check, t)) + Cardinality(Requests)
    <3>1. Cardinality(Later(successes, t)) + Cardinality(At("run"))
            <= Cardinality(Later(check, t)) + Cardinality(Requests)
      BY <2>1, <2>2 DEF CheckOK
    <3>2. Cardinality(Later(successes, t)) \in Nat /\ Cardinality(Later(check, t)) \in Nat
      BY <1>1, ModelNumbers
    <3> QED
      BY <1>7, <3>1, <3>2
  <2> QED
    BY <2>1, <2>2 DEF CheckOK
<1> QED
  BY <1>4, <1>8, <1>9 DEF ModelInv

\* The list is full, and its oldest entry too old to matter.
LEMMA OldestPassesKeeps ==
    ASSUME ModelInv, NEW r \in Requests, redis, pc[r] = "oldest",
           list # <<>>, ~(clock - list[Len(list)] < ModelDuration),
           pc' = [pc EXCEPT ![r] = "run"],
           UNCHANGED <<redis, together, clock, list, ends, check, stamp, successes>>
    PROVE  ModelInv'
<1> DEFINE t == clock - ModelDuration
           n == Len(list)
<1>1. ModelTyped /\ PlacesOK /\ pc \in [Requests -> Labels] /\ ends \in Nat
      /\ Times(list) /\ Times(successes)
  BY DEF ModelInv, ModelTyped
<1>2. "oldest" \in Labels /\ "run" \in Labels
  BY DEF Labels
<1>3. /\ ModelMax \in Nat \ {0} /\ ModelDuration \in Nat /\ clock \in Nat /\ t \in Int
      /\ n \in Nat \ {0} /\ \A i \in 1 .. n : list[i] \in Nat
  <2>1. Len(list) # 0
    BY <1>1 DEF Times
  <2> QED
    BY <1>1, <2>1, ModelNumbers
<1>4. /\ ModelTyped' /\ PlacesOK' /\ ListOK' /\ EntriesSucceeded'
      /\ redis /\ together => NothingLost'
  BY <1>1, <1>2, MoveKeeps
<1>5. /\ \A l : l # "oldest" /\ l # "run" => At(l)' = At(l)
      /\ Cardinality(At("run")') = Cardinality(At("run")) + 1
  BY <1>1, <1>2, Moves
<1>6. /\ At("push")' = At("push") /\ At("trim")' = At("trim")
      /\ At("expire")' = At("expire")
  BY <1>5
<1>7. ASSUME together PROVE ListKept' /\ RoomForRunning'
  <2>1. NothingLost /\ ListKept /\ RoomForRunning
    BY <1>7 DEF ModelInv
  <2>2. ListKept'
    BY <1>6, <2>1 DEF ListKept
  <2>3. list[n] <= t
    BY <1>3
  <2>4. Cardinality(Later(successes, t))
          <= Cardinality(Later(list, t)) + Cardinality(Pending(t))
    BY <1>3, <2>1, <2>3 DEF NothingLost
  <2>5. Cardinality(Later(list, t)) <= n - 1
    <3>1. Later(list, t) \in SUBSET (1 .. n - 1)
      <4>1. ASSUME NEW i \in Later(list, t) PROVE i \in 1 .. n - 1
        <5>1. i \in 1 .. n /\ list[i] > t
          BY <1>1 DEF Later, Times
        <5> HIDE DEF n, t
        <5>2. i # n
          BY <1>3, <2>3, <5>1
        <5> QED
          BY <1>3, <5>1, <5>2
      <4> QED
        BY <4>1
    <3>2. IsFiniteSet(1 .. n - 1) /\ Cardinality(1 .. n - 1) = n - 1
      <4> HIDE DEF n
      <4>0. n \in Nat \ {0}
        BY <1>3
      <4>1. 1 \in Int /\ n - 1 \in Int /\ (1 > n - 1 => n - 1 = 0) /\ (n - 1) - 1 + 1 = n - 1
        BY <4>0
      <4> QED
        BY <4>1, FS_Interval
    <3> QED
      BY <3>1, <3>2, FS_Subset
  <2>6. n <= ModelMax + Cardinality(At("trim"))
    BY <2>1 DEF ListKept
  <2>7. /\ Cardinality(Pending(t)) <= Cardinality(At("push"))
        /\ Cardinality(Pending(t)) \in Nat /\ Cardinality(At("push")) \in Nat
        /\ Cardinality(Requests) \in Nat /\ Cardinality(At("run")) \in Nat
        /\ Cardinality(At("trim")) \in Nat
    BY PlacesFinite
  <2>8. Cardinality(Later(list, t)) \in Nat /\ Cardinality(Later(successes, t)) \in Nat
    BY <1>1, <1>3, ModelNumbers
  <2>9. Cardinality(At("push")) + (Cardinality(At("run")) + 1) + Cardinality(At("trim"))
          <= Cardinality(Requests)
    BY <1>5, <1>6, ApartAfter
  <2>10. Cardinality(Later(successes, t)) + (Cardinality(At("run")) + 1)
           <= ModelMax + Cardinality(Requests) - 1
    <3> HIDE DEF t, n
    <3> QED
      BY <1>3, <2>4, <2>5, <2>6, <2>7, <2>8, <2>9, SMTT(30)
  <2>11. RoomForRunning'
    BY <1>5, <2>10 DEF RoomForRunning
  <2> QED
    BY <2>2, <2>11
<1> QED
  BY <1>4, <1>7 DEF ModelInv

LEMMA RecentIsLater == Model!Recent = Later(successes, clock - ModelDuration)
  BY DEF Model!Recent, Later

LEMMA CheckOldestKeeps ==
    ASSUME ModelInv, NEW r \in Requests, Model!CheckOldest(r),
           redis' = redis, together' = together
    PROVE  ModelInv' /\ Model!RefusedMeansSucceeded'
<1>1. /\ redis /\ pc[r] = "oldest"
      /\ UNCHANGED <<clock, list, check, stamp, successes>>
      /\ \/ /\ list = <<>> /\ pc' = [pc EXCEPT ![r] = "arrive"]
            /\ denied' = FALSE /\ ends' = ends
         \/ /\ list # <<>> /\ clock - list[Len(list)] < ModelDuration
            /\ pc' = [pc EXCEPT ![r] = "arrive"]
            /\ denied' = TRUE /\ ends' = clock + ModelDuration
         \/ /\ list # <<>> /\ ~(clock - list[Len(list)] < ModelDuration)
            /\ pc' = [pc EXCEPT ![r] = "run"]
            /\ denied' = FALSE /\ ends' = ends
  BY DEF Model!CheckOldest, Model!Goto, Model!Within
<1>2. CASE list = <<>>
  BY <1>1, <1>2, QuietMoveKeeps DEF Model!RefusedMeansSucceeded
<1>3. CASE list # <<>> /\ clock - list[Len(list)] < ModelDuration
  <2> DEFINE t == clock - ModelDuration
  <2>1. ModelTyped /\ ListOK /\ EntriesSucceeded /\ Times(list) /\ Times(successes)
    BY <1>1 DEF ModelInv, ModelTyped
  <2>2. /\ ModelMax \in Nat /\ t \in Int /\ Len(list) \in Nat
        /\ ModelDuration \in Nat /\ clock \in Nat
        /\ \A i \in 1 .. Len(list) : list[i] \in Nat
        /\ Cardinality(Later(list, t)) \in Nat /\ Cardinality(Later(successes, t)) \in Nat
        /\ Cardinality(Pending(t)) \in Nat
    BY <2>1, ModelNumbers, PlacesFinite
  <2>3. Len(list) >= ModelMax
    <3>1. r \in At("oldest")
      BY <1>1 DEF At
    <3> QED
      BY <1>3, <2>1, <3>1 DEF ListOK
  <2>4. Len(list) \in 1 .. Len(list)
    <3>1. Len(list) # 0
      BY <1>3, <2>1 DEF Times
    <3> QED
      BY <2>2, <3>1
  <2>5. \A i \in 1 .. Len(list) : list[i] > t
    <3> SUFFICES ASSUME NEW i \in 1 .. Len(list) PROVE list[i] > t
      OBVIOUS
    <3>1. list[i] >= list[Len(list)]
      BY <2>1, <2>4 DEF ListOK
    <3> QED
      BY <1>3, <2>2, <2>4, <3>1
  <2>6. Cardinality(Later(list, t)) = Len(list)
    BY <2>1, <2>2, <2>5, LaterAll
  <2>7. Cardinality(Later(list, t)) + Cardinality(Pending(t)) <= Cardinality(Later(successes, t))
    BY <2>1, <2>2 DEF EntriesSucceeded
  <2>8. Cardinality(Later(successes, t)) >= ModelMax
    <3> HIDE DEF t
    <3> QED
      BY <2>2, <2>3, <2>6, <2>7
  <2>9. Model!Recent' = Later(successes, t)
    BY <1>1 DEF Model!Recent, Later
  <2>10. Model!RefusedMeansSucceeded'
    BY <2>8, <2>9, SameCardinality DEF Model!RefusedMeansSucceeded
  <2>11. ModelInv'
    BY <1>1, <1>3, QuietMoveKeeps
  <2> QED
    BY <2>10, <2>11
<1>4. CASE list # <<>> /\ ~(clock - list[Len(list)] < ModelDuration)
  <2>1. /\ pc' = [pc EXCEPT ![r] = "run"] /\ denied' = FALSE /\ ends' = ends
    BY <1>1, <1>4
  <2> QED
    BY <1>1, <1>4, <2>1, OldestPassesKeeps DEF Model!RefusedMeansSucceeded
<1> QED
  BY <1>2, <1>3, <1>4

LEMMA ExpireKeeps ==
    ASSUME ModelInv, NEW r \in Requests, Model!Expire(r),
           redis' = redis, together' = together
    PROVE  ModelInv'
<1>1. /\ pc[r] = "expire" /\ pc' = [pc EXCEPT ![r] = "arrive"]
      /\ ends' = IF list = <<>> THEN ends ELSE clock + ModelDuration
      /\ UNCHANGED <<clock, list, check, stamp, successes>>
  BY DEF Model!Expire, Model!Goto
<1> QED
  BY <1>1, QuietMoveKeeps

\* A success is counted at once, and recorded later.
LEMMA SuccessKeeps ==
    ASSUME ModelInv, NEW r \in Requests, redis, pc[r] = "run",
           pc' = [pc EXCEPT ![r] = "push"],
           stamp' = [stamp EXCEPT ![r] = clock],
           successes' = Append(successes, clock),
           UNCHANGED <<redis, together, clock, list, ends, check>>
    PROVE  ModelInv'
<1>1. /\ ModelTyped /\ PlacesOK /\ ListOK /\ EntriesSucceeded
      /\ pc \in [Requests -> Labels] /\ ends \in Nat /\ clock \in Nat
      /\ stamp \in [Requests -> Nat]
      /\ Times(list) /\ Times(successes)
      /\ \A i \in 1 .. Len(successes) : successes[i] <= clock
      /\ \A i \in 1 .. Len(list) : list[i] <= clock
  BY DEF ModelInv, ModelTyped
<1>2. "run" \in Labels /\ "push" \in Labels
  BY DEF Labels
<1>3. /\ At("run")' = At("run") \ {r} /\ At("push")' = At("push") \cup {r}
      /\ r \notin At("push")
      /\ \A l : l # "run" /\ l # "push" => At(l)' = At(l)
      /\ Cardinality(At("run")') = Cardinality(At("run")) - 1
      /\ pc' \in [Requests -> Labels] /\ pc'[r] = "push"
      /\ \A o \in Requests : o # r => pc'[o] = pc[o]
  BY <1>1, <1>2, Moves
<1>4. /\ At("oldest")' = At("oldest") /\ At("trim")' = At("trim")
      /\ At("expire")' = At("expire")
  BY <1>3
<1>5. /\ stamp' \in [Requests -> Nat] /\ stamp'[r] = clock
      /\ \A o \in Requests : o # r => stamp'[o] = stamp[o]
  BY <1>1
<1>6. /\ Times(successes') /\ Len(successes') = Len(successes) + 1 /\ Len(successes) \in Nat
      /\ successes'[Len(successes) + 1] = clock
      /\ \A i \in 1 .. Len(successes) : successes'[i] = successes[i]
  BY <1>1 DEF Times
<1>7. ASSUME NEW t \in Int
      PROVE  \E d \in {0, 1} :
               /\ Cardinality(Later(successes', t)) = Cardinality(Later(successes, t)) + d
               /\ Cardinality(Pending(t)') = Cardinality(Pending(t)) + d
               /\ Cardinality(Later(successes, t)) \in Nat /\ Cardinality(Pending(t)) \in Nat
               /\ Cardinality(Later(list, t)) \in Nat
  <2>1. /\ Cardinality(Later(successes, t)) \in Nat /\ Cardinality(Pending(t)) \in Nat
        /\ Cardinality(Later(list, t)) \in Nat /\ IsFiniteSet(Pending(t))
    BY <1>1, ModelNumbers, PlacesFinite
  <2>2. Cardinality(Later(successes', t))
          = Cardinality(Later(successes, t)) + (IF clock > t THEN 1 ELSE 0)
    BY <1>1, LaterAppend
  <2>3. CASE clock > t
    <3>1. Pending(t)' = Pending(t) \cup {r} /\ r \notin Pending(t)
      BY <1>3, <1>5, <2>3 DEF Pending, At
    <3>2. Cardinality(Pending(t)') = Cardinality(Pending(t)) + 1
      BY <2>1, <3>1, FS_AddElement
    <3> WITNESS 1 \in {0, 1}
    <3> QED
      BY <2>1, <2>2, <2>3, <3>2
  <2>4. CASE ~(clock > t)
    <3>1. Pending(t)' = Pending(t)
      BY <1>3, <1>5, <2>4 DEF Pending, At
    <3> WITNESS 0 \in {0, 1}
    <3> QED
      BY <2>1, <2>2, <2>4, <3>1
  <2> QED
    BY <2>3, <2>4
<1>8. ModelTyped'
  <2>1. \A i \in 1 .. Len(successes') : successes'[i] <= clock
    BY <1>1, <1>6
  <2>2. \A o \in Requests : stamp'[o] <= clock
    BY <1>1, <1>5 DEF ModelTyped
  <2> QED
    BY <1>1, <1>3, <1>5, <1>6, <2>1, <2>2 DEF ModelTyped
<1>9. PlacesOK'
  BY <1>1, <1>3 DEF PlacesOK
<1>10. ListOK'
  <2>1. ASSUME NEW o \in At("push")'
        PROVE  /\ \A i \in 1 .. Len(list) : list[i] <= stamp'[o]
               /\ together => stamp'[o] = clock
    <3>1. CASE o = r
      BY <1>1, <1>5, <3>1
    <3>2. CASE o # r
      <4>1. o \in At("push") /\ o \in Requests
        BY <1>3, <2>1, <3>2 DEF At
      <4> QED
        BY <1>1, <1>5, <3>2, <4>1 DEF ListOK
    <3> QED
      BY <3>1, <3>2
  <2> QED
    BY <1>1, <1>4, <2>1 DEF ListOK
<1>11. EntriesSucceeded'
  <2> SUFFICES ASSUME NEW t \in Int
               PROVE  Cardinality(Later(list, t)) + Cardinality(Pending(t)')
                        <= Cardinality(Later(successes', t))
    BY DEF EntriesSucceeded
  <2>1. Cardinality(Later(list, t)) + Cardinality(Pending(t)) <= Cardinality(Later(successes, t))
    BY <1>1 DEF EntriesSucceeded
  <2>2. PICK d \in {0, 1} :
             /\ Cardinality(Later(successes', t)) = Cardinality(Later(successes, t)) + d
             /\ Cardinality(Pending(t)') = Cardinality(Pending(t)) + d
             /\ Cardinality(Later(successes, t)) \in Nat /\ Cardinality(Pending(t)) \in Nat
             /\ Cardinality(Later(list, t)) \in Nat
    BY <1>7
  <2> QED
    BY <2>1, <2>2
<1>12. ASSUME together PROVE NothingLost' /\ ListKept' /\ RoomForRunning'
  <2>1. NothingLost /\ ListKept /\ RoomForRunning
    BY <1>12 DEF ModelInv
  <2>2. NothingLost'
    <3> SUFFICES ASSUME NEW t \in Int, t >= clock - ModelDuration
                 PROVE  \/ Cardinality(Later(successes', t))
                             <= Cardinality(Later(list, t)) + Cardinality(Pending(t)')
                        \/ Len(list) >= ModelMax /\ list[Len(list)] > t
      BY DEF NothingLost
    <3>1. \/ Cardinality(Later(successes, t))
               <= Cardinality(Later(list, t)) + Cardinality(Pending(t))
          \/ Len(list) >= ModelMax /\ list[Len(list)] > t
      BY <2>1 DEF NothingLost
    <3>2. PICK d \in {0, 1} :
             /\ Cardinality(Later(successes', t)) = Cardinality(Later(successes, t)) + d
             /\ Cardinality(Pending(t)') = Cardinality(Pending(t)) + d
             /\ Cardinality(Later(successes, t)) \in Nat /\ Cardinality(Pending(t)) \in Nat
             /\ Cardinality(Later(list, t)) \in Nat
      BY <1>7
    <3> QED
      BY <3>1, <3>2
  <2>3. ListKept'
    BY <1>3, <1>4, <2>1 DEF ListKept
  <2>4. RoomForRunning'
    <3> DEFINE t == clock - ModelDuration
    <3>1. Cardinality(Later(successes, t)) + Cardinality(At("run"))
            <= ModelMax + Cardinality(Requests) - 1
      BY <2>1 DEF RoomForRunning
    <3>2. t \in Int /\ ModelMax \in Nat /\ Cardinality(Requests) \in Nat
          /\ Cardinality(At("run")) \in Nat
      BY <1>1, ModelNumbers, PlacesFinite
    <3>3. PICK d \in {0, 1} :
               /\ Cardinality(Later(successes', t)) = Cardinality(Later(successes, t)) + d
               /\ Cardinality(Later(successes, t)) \in Nat
      BY <1>7, <3>2
    <3>4. Cardinality(Later(successes', t)) + Cardinality(At("run")')
            <= ModelMax + Cardinality(Requests) - 1
      <4> HIDE DEF t
      <4> QED
        BY <1>3, <3>1, <3>2, <3>3
    <3> QED
      BY <3>4 DEF RoomForRunning
  <2> QED
    BY <2>2, <2>3, <2>4
<1> QED
  BY <1>8, <1>9, <1>10, <1>11, <1>12 DEF ModelInv

LEMMA MemorySuccessKeeps ==
    ASSUME ModelInv, NEW r \in Requests, ~redis, pc[r] = "run",
           pc' = [pc EXCEPT ![r] = "arrive"],
           stamp' = [stamp EXCEPT ![r] = clock],
           successes' = Append(successes, clock),
           UNCHANGED <<redis, together, clock, list, ends, check>>
    PROVE  ModelInv'
<1>1. /\ ModelTyped /\ PlacesOK /\ CheckOK
      /\ pc \in [Requests -> Labels] /\ clock \in Nat
      /\ stamp \in [Requests -> Nat] /\ Times(successes)
      /\ \A i \in 1 .. Len(successes) : successes[i] <= clock
  BY DEF ModelInv, ModelTyped
<1>2. "run" \in Labels /\ "arrive" \in Labels
  BY DEF Labels
<1>3. /\ Cardinality(At("run")') = Cardinality(At("run")) - 1
      /\ pc' \in [Requests -> Labels] /\ pc'[r] = "arrive"
      /\ \A o \in Requests : o # r => pc'[o] = pc[o]
  BY <1>1, <1>2, Moves
<1>5. /\ stamp' \in [Requests -> Nat] /\ stamp'[r] = clock
      /\ \A o \in Requests : o # r => stamp'[o] = stamp[o]
  BY <1>1
<1>6. /\ Times(successes') /\ Len(successes') = Len(successes) + 1 /\ Len(successes) \in Nat
      /\ successes'[Len(successes) + 1] = clock
      /\ \A i \in 1 .. Len(successes) : successes'[i] = successes[i]
  BY <1>1 DEF Times
<1>8. ModelTyped'
  <2>1. \A i \in 1 .. Len(successes') : successes'[i] <= clock
    BY <1>1, <1>6
  <2>2. \A o \in Requests : stamp'[o] <= clock
    BY <1>1, <1>5 DEF ModelTyped
  <2> QED
    BY <1>1, <1>3, <1>5, <1>6, <2>1, <2>2 DEF ModelTyped
<1>9. PlacesOK'
  BY <1>1, <1>3 DEF PlacesOK
<1>10. CheckOK'
  <2> SUFFICES ASSUME NEW t \in Int, clock - ModelDuration <= t, t <= clock
               PROVE  Cardinality(Later(successes', t)) + Cardinality(At("run")')
                        <= Cardinality(Later(check, t)) + Cardinality(Requests)
    BY <1>1 DEF CheckOK
  <2>1. Cardinality(Later(successes, t)) + Cardinality(At("run"))
          <= Cardinality(Later(check, t)) + Cardinality(Requests)
    BY <1>1 DEF CheckOK
  <2>2. Cardinality(Later(successes', t))
          = Cardinality(Later(successes, t)) + (IF clock > t THEN 1 ELSE 0)
    BY <1>1, LaterAppend
  <2>3. /\ Cardinality(Later(successes, t)) \in Nat /\ Cardinality(Later(check, t)) \in Nat
        /\ Cardinality(Requests) \in Nat /\ Cardinality(At("run")) \in Nat
    BY <1>1, ModelNumbers, PlacesFinite
  <2> QED
    BY <1>3, <2>1, <2>2, <2>3
<1> QED
  BY <1>8, <1>9, <1>10 DEF ModelInv

LEMMA RunKeeps ==
    ASSUME ModelInv, NEW r \in Requests, Model!Run(r),
           redis' = redis, together' = together
    PROVE  ModelInv'
<1>1. /\ pc[r] = "run" /\ UNCHANGED <<clock, list, ends, check>>
      /\ \/ /\ pc' = [pc EXCEPT ![r] = "arrive"] /\ UNCHANGED <<stamp, successes>>
         \/ /\ pc' = [pc EXCEPT ![r] = IF redis THEN "push" ELSE "arrive"]
            /\ stamp' = [stamp EXCEPT ![r] = clock]
            /\ successes' = Append(successes, clock)
  BY DEF Model!Run, Model!Goto
<1>2. CASE pc' = [pc EXCEPT ![r] = "arrive"] /\ UNCHANGED <<stamp, successes>>
  BY <1>1, <1>2, QuietMoveKeeps
<1>3. CASE /\ pc' = [pc EXCEPT ![r] = IF redis THEN "push" ELSE "arrive"]
           /\ stamp' = [stamp EXCEPT ![r] = clock]
           /\ successes' = Append(successes, clock)
  <2>1. CASE redis
    BY <1>1, <1>3, <2>1, SuccessKeeps
  <2>2. CASE ~redis
    BY <1>1, <1>3, <2>2, MemorySuccessKeeps
  <2> QED
    BY <2>1, <2>2
<1> QED
  BY <1>1, <1>2, <1>3

LEMMA PushKeeps ==
    ASSUME ModelInv, NEW r \in Requests, Model!Push(r),
           redis' = redis, together' = together
    PROVE  ModelInv'
<1> DEFINE x == stamp[r]
<1>0. /\ pc[r] = "push" /\ pc' = [pc EXCEPT ![r] = "trim"]
      /\ list' = <<x>> \o list
      /\ ends' = IF list = <<>> THEN ModelMaxTime + 1 ELSE ends
      /\ UNCHANGED <<clock, check, stamp, successes>>
  BY DEF Model!Push, Model!Goto
<1>1. /\ ModelTyped /\ PlacesOK
      /\ pc \in [Requests -> Labels] /\ ends \in Nat /\ clock \in Nat
      /\ stamp \in [Requests -> Nat] /\ x \in Nat /\ x <= clock
      /\ Times(list) /\ Times(successes)
      /\ \A i \in 1 .. Len(list) : list[i] <= clock
  BY DEF ModelInv, ModelTyped
<1>2. "trim" \in Labels /\ "push" \in Labels
  BY DEF Labels
<1>3. /\ At("push")' = At("push") \ {r} /\ r \in At("push")
      /\ At("trim")' = At("trim") \cup {r} /\ r \notin At("trim")
      /\ \A l : l # "push" /\ l # "trim" => At(l)' = At(l)
      /\ Cardinality(At("trim")') = Cardinality(At("trim")) + 1
      /\ pc' \in [Requests -> Labels] /\ pc'[r] = "trim"
      /\ \A o \in Requests : o # r => pc'[o] = pc[o]
  BY <1>0, <1>1, <1>2, Moves
<1>4. redis /\ ListOK /\ EntriesSucceeded
  BY <1>0, <1>1 DEF ModelInv, PlacesOK
<1>5. /\ Times(list') /\ Len(list') = Len(list) + 1 /\ list'[1] = x
      /\ \A i \in 1 .. Len(list) : list'[i + 1] = list[i]
      /\ Len(list) \in Nat /\ \A i \in 1 .. Len(list) : list[i] \in Nat
  BY <1>0, <1>1, LaterPrepend, ModelNumbers
<1> HIDE DEF x
<1>6. \A i \in 1 .. Len(list') : i = 1 \/ (i - 1 \in 1 .. Len(list) /\ list'[i] = list[i - 1])
  <2> SUFFICES ASSUME NEW i \in 1 .. Len(list'), i # 1
               PROVE  i - 1 \in 1 .. Len(list) /\ list'[i] = list[i - 1]
    OBVIOUS
  <2>1. i - 1 \in 1 .. Len(list) /\ (i - 1) + 1 = i
    BY <1>5
  <2> QED
    BY <1>5, <2>1
<1>7. ASSUME NEW t \in Int
      PROVE  /\ Cardinality(Later(list', t)) + Cardinality(Pending(t)')
                  = Cardinality(Later(list, t)) + Cardinality(Pending(t))
             /\ Cardinality(Later(list, t)) + Cardinality(Pending(t)) \in Nat
  <2>1. /\ Cardinality(Pending(t)) \in Nat /\ Cardinality(Later(list, t)) \in Nat
        /\ IsFiniteSet(Pending(t))
    BY <1>1, ModelNumbers, PlacesFinite
  <2>2. Cardinality(Later(list', t)) = Cardinality(Later(list, t)) + (IF x > t THEN 1 ELSE 0)
    BY <1>0, <1>1, LaterPrepend
  <2>3. CASE x > t
    <3>1. Pending(t)' = Pending(t) \ {r} /\ r \in Pending(t)
      BY <1>0, <1>3, <2>3 DEF Pending, x
    <3>2. Cardinality(Pending(t)') = Cardinality(Pending(t)) - 1
      BY <2>1, <3>1, FS_RemoveElement
    <3> QED
      BY <2>1, <2>2, <2>3, <3>2
  <2>4. CASE ~(x > t)
    <3>1. Pending(t)' = Pending(t)
      BY <1>0, <1>3, <2>4 DEF Pending, x
    <3> QED
      BY <2>1, <2>2, <2>4, <3>1
  <2> QED
    BY <2>3, <2>4
<1>8. ModelTyped'
  <2>1. \A i \in 1 .. Len(list') : list'[i] <= clock
    BY <1>1, <1>5, <1>6
  <2>2. ends' \in Nat
    BY <1>0, <1>1, ModelConstantsOK
  <2> QED
    BY <1>0, <1>1, <1>3, <1>5, <2>1, <2>2 DEF ModelTyped
<1>9. PlacesOK'
  BY <1>0, <1>1, <1>3, <1>4 DEF PlacesOK
<1>a. \A i \in 1 .. Len(list) : list[i] <= x
  BY <1>3, <1>4 DEF ListOK, x
<1>b. \A o \in At("push")' : stamp[o] = x /\ together /\ o \in At("push")
  <2> SUFFICES ASSUME NEW o \in At("push")' PROVE stamp[o] = x /\ together /\ o \in At("push")
    OBVIOUS
  <2>1. o \in At("push") /\ o # r /\ o \in Requests /\ pc[o] = "push"
    BY <1>3 DEF At
  <2>2. together
    BY <1>0, <1>1, <2>1 DEF PlacesOK
  <2> QED
    BY <1>3, <1>4, <2>1, <2>2 DEF ListOK, x
<1>10. ListOK'
  <2>1. ASSUME NEW i \in 1 .. Len(list'), NEW j \in 1 .. Len(list'), i <= j
        PROVE  list'[i] >= list'[j]
    <3>1. CASE i = 1
      BY <1>1, <1>5, <1>6, <1>a, <3>1
    <3>2. CASE i # 1
      <4>1. j # 1 /\ i - 1 <= j - 1
        BY <1>5, <2>1, <3>2
      <4>2. /\ i - 1 \in 1 .. Len(list) /\ list'[i] = list[i - 1]
            /\ j - 1 \in 1 .. Len(list) /\ list'[j] = list[j - 1]
        BY <1>6, <3>2, <4>1
      <4>3. list[i - 1] >= list[j - 1]
        BY <1>4, <4>1, <4>2 DEF ListOK
      <4> QED
        BY <4>2, <4>3
    <3> QED
      BY <3>1, <3>2
  <2>2. ASSUME NEW o \in At("push")'
        PROVE  /\ \A i \in 1 .. Len(list') : list'[i] <= stamp'[o]
               /\ together' => stamp'[o] = clock'
    <3>1. stamp'[o] = x /\ together /\ o \in At("push")
      BY <1>0, <1>b
    <3>2. \A i \in 1 .. Len(list') : list'[i] <= x
      BY <1>1, <1>5, <1>6, <1>a
    <3>3. stamp[o] = clock
      BY <1>4, <3>1 DEF ListOK
    <3> QED
      BY <1>0, <3>1, <3>2, <3>3
  <2>3. ASSUME NEW o \in At("oldest")'
        PROVE  Len(list') >= ModelMax
    <3>1. o \in At("oldest") /\ o # r /\ pc[o] = "oldest" /\ o \in Requests
      BY <1>0, <1>3 DEF At
    <3>2. together
      BY <1>0, <1>1, <3>1 DEF PlacesOK
    <3>3. Len(list) >= ModelMax
      BY <1>4, <3>1, <3>2 DEF ListOK
    <3> QED
      BY <1>5, <3>3, ModelConstantsOK
  <2> QED
    BY <2>1, <2>2, <2>3 DEF ListOK
<1>11. EntriesSucceeded'
  <2> SUFFICES ASSUME NEW t \in Int
               PROVE  Cardinality(Later(list', t)) + Cardinality(Pending(t)')
                        <= Cardinality(Later(successes, t))
    BY <1>0 DEF EntriesSucceeded
  <2>1. Cardinality(Later(list, t)) + Cardinality(Pending(t)) <= Cardinality(Later(successes, t))
    BY <1>4 DEF EntriesSucceeded
  <2>2. Cardinality(Later(list', t)) + Cardinality(Pending(t)')
          = Cardinality(Later(list, t)) + Cardinality(Pending(t))
    BY <1>7
  <2> QED
    BY <2>1, <2>2
<1>12. ASSUME together PROVE NothingLost' /\ ListKept' /\ RoomForRunning'
  <2>1. NothingLost /\ ListKept /\ RoomForRunning
    BY <1>4, <1>12 DEF ModelInv
  <2>2. NothingLost'
    <3> SUFFICES ASSUME NEW t \in Int, t >= clock - ModelDuration
                 PROVE  \/ Cardinality(Later(successes, t))
                             <= Cardinality(Later(list', t)) + Cardinality(Pending(t)')
                        \/ Len(list') >= ModelMax /\ list'[Len(list')] > t
      BY <1>0 DEF NothingLost
    <3>1. \/ Cardinality(Later(successes, t))
               <= Cardinality(Later(list, t)) + Cardinality(Pending(t))
          \/ Len(list) >= ModelMax /\ list[Len(list)] > t
      BY <2>1 DEF NothingLost
    <3>2. Cardinality(Later(list', t)) + Cardinality(Pending(t)')
            = Cardinality(Later(list, t)) + Cardinality(Pending(t))
      BY <1>7
    <3>3. ASSUME Len(list) >= ModelMax, list[Len(list)] > t
          PROVE  Len(list') >= ModelMax /\ list'[Len(list')] > t
      <4>1. Len(list) \in 1 .. Len(list) /\ Len(list') >= ModelMax
        BY <1>5, <3>3, ModelConstantsOK
      <4>2. list'[Len(list')] = list[Len(list)]
        BY <1>5, <4>1
      <4> QED
        BY <3>3, <4>1, <4>2
    <3> QED
      BY <3>1, <3>2, <3>3
  <2>3. ListKept'
    <3>1. Len(list') <= ModelMax + Cardinality(At("trim")')
      BY <1>3, <1>5, <2>1, ModelConstantsOK, PlacesFinite DEF ListKept
    <3>2. list' # <<>>
      BY <1>5 DEF Times
    <3>3. At("trim")' # {}
      BY <1>3
    <3> QED
      BY <3>1, <3>2, <3>3 DEF ListKept
  <2>4. RoomForRunning'
    BY <1>0, <1>3, <2>1 DEF RoomForRunning
  <2> QED
    BY <2>2, <2>3, <2>4
<1> QED
  BY <1>4, <1>8, <1>9, <1>10, <1>11, <1>12 DEF ModelInv

LEMMA TrimKeeps ==
    ASSUME ModelInv, NEW r \in Requests, Model!Trim(r),
           redis' = redis, together' = together
    PROVE  ModelInv'
<1> DEFINE n == Len(list)
<1>0. /\ pc[r] = "trim" /\ pc' = [pc EXCEPT ![r] = "expire"]
      /\ list' = SubSeq(list, 1, IF n < ModelMax THEN n ELSE ModelMax)
      /\ UNCHANGED <<clock, ends, check, stamp, successes>>
  BY DEF Model!Trim, Model!Goto, Model!Kept
<1>1. /\ ModelTyped /\ PlacesOK
      /\ pc \in [Requests -> Labels] /\ clock \in Nat
      /\ Times(list) /\ Times(successes)
      /\ \A i \in 1 .. n : list[i] <= clock
  BY DEF ModelInv, ModelTyped
<1>2. "trim" \in Labels /\ "expire" \in Labels
  BY DEF Labels
<1>3. /\ At("trim")' = At("trim") \ {r} /\ r \in At("trim")
      /\ At("expire")' = At("expire") \cup {r}
      /\ \A l : l # "expire" /\ l # "trim" => At(l)' = At(l)
      /\ Cardinality(At("trim")') = Cardinality(At("trim")) - 1
      /\ pc' \in [Requests -> Labels] /\ pc'[r] = "expire"
      /\ \A o \in Requests : o # r => pc'[o] = pc[o]
  BY <1>0, <1>1, <1>2, Moves
<1>4. redis /\ ListOK /\ EntriesSucceeded
  BY <1>0, <1>1 DEF ModelInv, PlacesOK
<1>5. At("push")' = At("push") /\ At("oldest")' = At("oldest") /\ At("run")' = At("run")
      /\ \A t : Pending(t)' = Pending(t)
  BY <1>0, <1>3 DEF Pending
<1>6. n \in Nat /\ ModelMax \in Nat \ {0} /\ \A i \in 1 .. n : list[i] \in Nat
  BY <1>1, ModelNumbers
<1>7. PICK m \in Nat : /\ m = (IF n < ModelMax THEN n ELSE ModelMax)
                       /\ m <= n /\ m <= ModelMax /\ (m < n => m = ModelMax)
                       /\ (m < ModelMax => m = n)
  BY <1>6
<1>8. /\ Times(list') /\ Len(list') = m /\ \A i \in 1 .. m : list'[i] = list[i]
      /\ 1 .. m \subseteq 1 .. n
  <2>1. list' = SubSeq(list, 1, m) /\ list \in Seq(Nat)
    BY <1>0, <1>1, <1>7 DEF Times
  <2>2. list' \in Seq(Nat) /\ Len(list') = m /\ \A i \in 1 .. m : list'[i] = list[i]
    BY <1>6, <1>7, <2>1
  <2> QED
    BY <1>6, <1>7, <2>2 DEF Times
<1> HIDE DEF n
<1>9. ModelTyped'
  BY <1>0, <1>1, <1>3, <1>8 DEF ModelTyped
<1>10. PlacesOK'
  BY <1>0, <1>1, <1>3, <1>4 DEF PlacesOK
<1>11. ListOK'
  <2>1. \A i, j \in 1 .. m : i <= j => list'[i] >= list'[j]
    BY <1>4, <1>8 DEF ListOK, n
  <2>2. ASSUME NEW o \in At("push")
        PROVE  /\ \A i \in 1 .. m : list'[i] <= stamp[o]
               /\ together => stamp[o] = clock
    BY <1>4, <1>8 DEF ListOK, n
  <2>3. ASSUME NEW o \in At("oldest")
        PROVE  m >= ModelMax \/ (~together /\ list' = <<>>)
    <3>1. n >= ModelMax \/ (~together /\ list = <<>>)
      BY <1>4 DEF ListOK, n
    <3>2. list = <<>> => list' = <<>>
      <4>1. list = <<>> => n = 0
        BY DEF n
      <4>2. list = <<>> => Len(list') = 0
        BY <1>6, <1>7, <1>8, <4>1
      <4> QED
        BY <1>8, <4>2 DEF Times
    <3> QED
      BY <1>6, <1>7, <3>1, <3>2
  <2> QED
    BY <1>0, <1>5, <1>8, <2>1, <2>2, <2>3 DEF ListOK
<1>12. ASSUME NEW t \in Int
       PROVE  /\ Cardinality(Later(list', t)) <= Cardinality(Later(list, t))
              /\ Cardinality(Later(list', t)) \in Nat
  <2>1. Later(list', t) \in SUBSET Later(list, t)
    BY <1>1, <1>8 DEF Later, Times, n
  <2> QED
    BY <1>1, <1>8, <2>1, LaterIsFinite, FS_Subset
<1>13. EntriesSucceeded'
  <2> SUFFICES ASSUME NEW t \in Int
               PROVE  Cardinality(Later(list', t)) + Cardinality(Pending(t))
                        <= Cardinality(Later(successes, t))
    BY <1>0, <1>5 DEF EntriesSucceeded
  <2>1. Cardinality(Later(list, t)) + Cardinality(Pending(t)) <= Cardinality(Later(successes, t))
    BY <1>4 DEF EntriesSucceeded
  <2>2. /\ Cardinality(Later(list, t)) \in Nat /\ Cardinality(Later(successes, t)) \in Nat
        /\ Cardinality(Pending(t)) \in Nat
    BY <1>1, ModelNumbers, PlacesFinite
  <2>3. /\ Cardinality(Later(list', t)) <= Cardinality(Later(list, t))
        /\ Cardinality(Later(list', t)) \in Nat
    BY <1>12
  <2> QED
    BY <2>1, <2>2, <2>3
<1>14. ASSUME together PROVE NothingLost' /\ ListKept' /\ RoomForRunning'
  <2>1. NothingLost /\ ListKept /\ RoomForRunning
    BY <1>4, <1>14 DEF ModelInv
  <2>2. NothingLost'
    <3> SUFFICES ASSUME NEW t \in Int, t >= clock - ModelDuration
                 PROVE  \/ Cardinality(Later(successes, t))
                             <= Cardinality(Later(list', t)) + Cardinality(Pending(t))
                        \/ m >= ModelMax /\ list'[m] > t
      BY <1>0, <1>5, <1>8 DEF NothingLost
    <3>1. \/ Cardinality(Later(successes, t))
               <= Cardinality(Later(list, t)) + Cardinality(Pending(t))
          \/ n >= ModelMax /\ list[n] > t
      BY <2>1 DEF NothingLost, n
    <3>2. CASE \E i \in 1 .. n : i >= m /\ m = ModelMax /\ list[i] > t
      <4>1. PICK i \in 1 .. n : i >= m /\ m = ModelMax /\ list[i] > t
        BY <3>2
      <4>2. m \in 1 .. n /\ m \in 1 .. m
        BY <1>6, <1>7, <4>1
      <4>3. list[m] >= list[i] /\ list'[m] = list[m]
        BY <1>4, <1>8, <4>1, <4>2 DEF ListOK, n
      <4> QED
        BY <1>6, <4>1, <4>2, <4>3
    <3>3. CASE ~(\E i \in 1 .. n : i >= m /\ m = ModelMax /\ list[i] > t)
      <4>1. ASSUME n >= ModelMax, list[n] > t PROVE FALSE
        <5>1. n \in 1 .. n /\ n >= m /\ m = ModelMax
          BY <1>6, <1>7, <4>1
        <5> QED
          BY <3>3, <4>1, <5>1
      <4>2. \A i \in 1 .. n : list[i] > t => i \in 1 .. m
        BY <1>6, <1>7, <3>3
      <4>3. Later(list', t) = Later(list, t)
        <5>1. DOMAIN list = 1 .. n /\ DOMAIN list' = 1 .. m
          BY <1>1, <1>8 DEF Times, n
        <5> QED
          BY <1>8, <4>2, <5>1 DEF Later
      <4> QED
        BY <3>1, <4>1, <4>3
    <3> QED
      BY <3>2, <3>3
  <2>3. ListKept'
    <3>1. Len(list') <= ModelMax + Cardinality(At("trim")')
      <4>1. Cardinality(At("trim")') \in Nat
        <5>1. At("trim")' \in SUBSET Requests
          BY DEF At
        <5> QED
          BY <5>1, ModelConstantsOK, FS_Subset, FS_CardinalityType
      <4> QED
        BY <1>6, <1>7, <1>8, <4>1
    <3>2. list' # <<>>
      <4>1. list # <<>>
        BY <1>3, <2>1 DEF ListKept
      <4>2. n # 0
        BY <1>1, <4>1 DEF Times, n
      <4>3. Len(list') # 0
        BY <1>6, <1>7, <1>8, <4>2
      <4> QED
        BY <4>3 DEF Times
    <3>3. At("expire")' # {}
      BY <1>3
    <3> QED
      BY <3>1, <3>2, <3>3 DEF ListKept
  <2>4. RoomForRunning'
    BY <1>0, <1>5, <2>1 DEF RoomForRunning
  <2> QED
    BY <2>2, <2>3, <2>4
<1> QED
  BY <1>4, <1>9, <1>10, <1>11, <1>13, <1>14 DEF ModelInv

\* A request is let through in memory: its time joins what is left of the queue.
LEMMA MemoryPassesKeeps ==
    ASSUME ModelInv, NEW r \in Requests, ~redis, pc[r] = "arrive",
           together \/ \A o \in Requests : pc[o] = "arrive",
           pc' = [pc EXCEPT ![r] = "run"],
           NEW left, Times(left), Len(left) < ModelMax, check' = Append(left, clock),
           \A i \in 1 .. Len(left) : left[i] <= clock,
           \A t \in Int : t >= clock - ModelDuration =>
             Cardinality(Later(left, t)) = Cardinality(Later(check, t)),
           UNCHANGED <<redis, together, clock, list, ends, stamp, successes>>
    PROVE  ModelInv'
<1>1. /\ ModelTyped /\ PlacesOK /\ CheckOK
      /\ pc \in [Requests -> Labels] /\ clock \in Nat /\ Times(successes)
      /\ \A i \in 1 .. Len(successes) : successes[i] <= clock
  BY DEF ModelInv, ModelTyped
<1>2. "run" \in Labels /\ "arrive" \in Labels
  BY DEF Labels
<1>3. /\ Cardinality(At("run")') = Cardinality(At("run")) + 1
      /\ pc' \in [Requests -> Labels] /\ pc'[r] = "run"
      /\ \A o \in Requests : o # r => pc'[o] = pc[o]
  BY <1>1, <1>2, Moves
<1>4. /\ Times(check') /\ Len(check') = Len(left) + 1 /\ Len(left) \in Nat
      /\ check'[Len(left) + 1] = clock
      /\ \A i \in 1 .. Len(left) : check'[i] = left[i]
  BY <1>1 DEF Times
<1>5. ModelTyped'
  <2>1. \A i \in 1 .. Len(check') : check'[i] <= clock
    BY <1>1, <1>4
  <2> QED
    BY <1>1, <1>3, <1>4, <2>1 DEF ModelTyped
<1>6. PlacesOK'
  BY <1>1, <1>3 DEF PlacesOK
<1>7. CheckOK'
  <2>1. Len(check') <= ModelMax
    BY <1>4, ModelConstantsOK
  <2>2. ASSUME NEW t \in Int, clock - ModelDuration <= t, t <= clock
        PROVE  Cardinality(Later(successes, t)) + Cardinality(At("run")')
                 <= Cardinality(Later(check', t)) + Cardinality(Requests)
    <3>1. Cardinality(Later(successes, t)) + Cardinality(At("run"))
            <= Cardinality(Later(check, t)) + Cardinality(Requests)
      BY <1>1, <2>2 DEF CheckOK
    <3>2. /\ Cardinality(Later(successes, t)) \in Nat /\ Cardinality(Later(check, t)) \in Nat
          /\ Cardinality(Requests) \in Nat /\ Cardinality(At("run")) \in Nat
      BY <1>1, ModelNumbers, PlacesFinite
    <3>3. Cardinality(Later(check', t))
            = Cardinality(Later(left, t)) + (IF clock > t THEN 1 ELSE 0)
      BY <1>1, LaterAppend
    <3>4. Cardinality(Later(left, t)) = Cardinality(Later(check, t))
      <4>1. t >= clock - ModelDuration
        BY <1>1, <2>2, ModelConstantsOK
      <4> QED
        BY <4>1
    <3>5. CASE clock > t
      BY <1>3, <3>1, <3>2, <3>3, <3>4, <3>5
    <3>6. CASE ~(clock > t)
      <4>1. \A i \in 1 .. Len(successes) : successes[i] <= t
        <5>1. t = clock
          BY <1>1, <2>2, <3>6
        <5> QED
          BY <1>1, <5>1
      <4>2. Cardinality(Later(successes, t)) = 0
        BY <1>1, <4>1, LaterNone
      <4>3. Cardinality(At("run")') <= Cardinality(Requests)
        <5>1. At("run")' \in SUBSET Requests
          BY DEF At
        <5> QED
          BY <5>1, ModelConstantsOK, FS_Subset
      <4> QED
        BY <1>3, <3>2, <3>3, <3>4, <3>6, <4>2, <4>3
    <3> QED
      BY <3>5, <3>6
  <2> QED
    BY <2>1, <2>2 DEF CheckOK
<1> QED
  BY <1>5, <1>6, <1>7 DEF ModelInv

\* The oldest time goes.
LEMMA WithoutOldest ==
    ASSUME NEW s, Times(s), Len(s) > 0, NEW t \in Int, s[1] <= t
    PROVE  /\ Times(Tail(s)) /\ Len(Tail(s)) = Len(s) - 1
           /\ \A i \in 1 .. Len(Tail(s)) : Tail(s)[i] = s[i + 1]
           /\ Cardinality(Later(Tail(s), t)) = Cardinality(Later(s, t))
<1>1. /\ s \in Seq(Nat) /\ Len(s) \in Nat /\ s # <<>>
  BY DEF Times
<1>2. /\ Times(Tail(s)) /\ Len(Tail(s)) = Len(s) - 1
      /\ \A i \in 1 .. Len(Tail(s)) : Tail(s)[i] = s[i + 1]
  BY <1>1 DEF Times
<1>3. s = <<s[1]>> \o Tail(s) /\ s[1] \in Nat
  BY <1>1
<1>4. Cardinality(Later(<<s[1]>> \o Tail(s), t))
        = Cardinality(Later(Tail(s), t)) + (IF s[1] > t THEN 1 ELSE 0)
  BY <1>2, <1>3, LaterPrepend
<1>5. Cardinality(Later(Tail(s), t)) \in Nat
  BY <1>2, LaterIsFinite
<1>6. (IF s[1] > t THEN 1 ELSE 0) = 0
  BY <1>3
<1>7. Cardinality(Later(s, t)) = Cardinality(Later(Tail(s), t)) + (IF s[1] > t THEN 1 ELSE 0)
  BY <1>3, <1>4
<1>8. Cardinality(Later(Tail(s), t)) = Cardinality(Later(s, t))
  BY <1>5, <1>6, <1>7
<1> QED
  BY <1>2, <1>8

LEMMA CheckMemoryKeeps ==
    ASSUME ModelInv, NEW r \in Requests, Model!CheckMemory(r),
           redis' = redis, together' = together
    PROVE  ModelInv' /\ Model!RefusedMeansSucceeded'
<1> DEFINE passes == check = <<>> \/ Len(check) < ModelMax
           old == clock - Head(check) >= ModelDuration
<1>0. /\ ~redis /\ pc[r] = "arrive"
      /\ together \/ \A o \in Requests : pc[o] = "arrive"
      /\ UNCHANGED <<clock, list, ends, stamp, successes>>
      /\ check' = Model!Request(check, clock, ModelMax, ModelDuration).left
      /\ pc' = [pc EXCEPT ![r] = IF Model!Request(check, clock, ModelMax, ModelDuration).allowed
                                 THEN "run" ELSE "arrive"]
  BY DEF Model!CheckMemory, Model!Arrives, Model!Goto
<1>1. /\ ModelTyped /\ pc \in [Requests -> Labels] /\ clock \in Nat /\ Times(check)
      /\ \A i \in 1 .. Len(check) : check[i] <= clock
  BY DEF ModelInv, ModelTyped
<1>2. /\ Len(check) \in Nat /\ ModelMax \in Nat \ {0} /\ ModelDuration \in Nat
      /\ \A i \in 1 .. Len(check) : check[i] \in Nat
      /\ check = <<>> => Len(check) = 0
      /\ Len(check) <= ModelMax
  BY <1>0, <1>1, ModelNumbers DEF ModelInv, CheckOK
<1>3. Model!RefusedMeansSucceeded'
  BY <1>0 DEF Model!RefusedMeansSucceeded
<1>4. CASE passes
  <2>1. Model!Request(check, clock, ModelMax, ModelDuration)
          = [allowed |-> TRUE, left |-> Append(check, clock)]
    BY <1>4 DEF Model!Request
  <2>2. check' = Append(check, clock) /\ pc' = [pc EXCEPT ![r] = "run"]
    BY <1>0, <2>1
  <2>3. Len(check) < ModelMax
    BY <1>2, <1>4
  <2> HIDE DEF passes
  <2> QED
    BY <1>0, <1>1, <1>3, <2>2, <2>3, MemoryPassesKeeps
<1>5. CASE ~passes /\ old
  <2>1. Model!Request(check, clock, ModelMax, ModelDuration)
          = [allowed |-> TRUE, left |-> Append(Tail(check), clock)]
    BY <1>5 DEF Model!Request
  <2>2. check' = Append(Tail(check), clock) /\ pc' = [pc EXCEPT ![r] = "run"]
    BY <1>0, <2>1
  <2>3. Len(check) > 0 /\ Head(check) = check[1] /\ 1 \in 1 .. Len(check)
    BY <1>1, <1>2, <1>5 DEF Times
  <2>4. \A t \in Int : t >= clock - ModelDuration => check[1] <= t
    BY <1>1, <1>2, <1>5, <2>3
  <2>5. /\ Times(Tail(check)) /\ Len(Tail(check)) = Len(check) - 1
        /\ \A i \in 1 .. Len(Tail(check)) : Tail(check)[i] = check[i + 1]
        /\ \A t \in Int : t >= clock - ModelDuration =>
             Cardinality(Later(Tail(check), t)) = Cardinality(Later(check, t))
    <3>1. ASSUME NEW t \in Int, t >= clock - ModelDuration
          PROVE  /\ Times(Tail(check)) /\ Len(Tail(check)) = Len(check) - 1
                 /\ \A i \in 1 .. Len(Tail(check)) : Tail(check)[i] = check[i + 1]
                 /\ Cardinality(Later(Tail(check), t)) = Cardinality(Later(check, t))
      <4>1. check[1] <= t
        BY <2>4, <3>1
      <4> QED
        BY <1>1, <2>3, <4>1, WithoutOldest
    <3>2. clock \in Int /\ clock >= clock - ModelDuration
      BY <1>1, <1>2
    <3> QED
      BY <3>1, <3>2
  <2>6. Len(Tail(check)) < ModelMax /\ \A i \in 1 .. Len(Tail(check)) : Tail(check)[i] <= clock
    BY <1>1, <1>2, <2>3, <2>5
  <2> HIDE DEF passes, old
  <2> QED
    BY <1>0, <1>3, <2>2, <2>5, <2>6, MemoryPassesKeeps
<1>6. CASE ~passes /\ ~old
  <2>1. Model!Request(check, clock, ModelMax, ModelDuration)
          = [allowed |-> FALSE, left |-> check]
    BY <1>6 DEF Model!Request
  <2>2. check' = check /\ pc' = [pc EXCEPT ![r] = "arrive"]
    BY <1>0, <2>1
  <2>3. pc' = pc
    BY <1>0, <1>1, <2>2
  <2> HIDE DEF passes, old
  <2>4. ModelInv'
    BY <1>0, <2>2, <2>3, SMTT(30) DEF ModelInv, ModelTyped, PlacesOK, CheckOK, At
  <2> QED
    BY <1>3, <2>4
<1> QED
  BY <1>4, <1>5, <1>6

LEMMA ModelNext ==
    ASSUME ModelInv, Model!RefusedMeansSucceeded,
           Model!Next \/ UNCHANGED modelVars
    PROVE  ModelInv' /\ Model!RefusedMeansSucceeded'
<1>1. CASE Model!Tick /\ redis' = redis /\ together' = together
  <2>1. denied' = FALSE
    BY <1>1 DEF Model!Tick
  <2> QED
    BY <1>1, <2>1, ModelTickKeeps DEF Model!RefusedMeansSucceeded
<1>2. ASSUME NEW r \in Requests, redis' = redis, together' = together,
             \/ Model!CheckLength(r) \/ Model!CheckOldest(r) \/ Model!CheckMemory(r)
             \/ Model!Run(r) \/ Model!Push(r) \/ Model!Trim(r) \/ Model!Expire(r)
      PROVE  ModelInv' /\ Model!RefusedMeansSucceeded'
  <2>1. CASE Model!CheckOldest(r) \/ Model!CheckMemory(r)
    BY <1>2, <2>1, CheckOldestKeeps, CheckMemoryKeeps
  <2>2. CASE Model!CheckLength(r)
    <3>1. denied' = FALSE
      BY <2>2 DEF Model!CheckLength
    <3> QED
      BY <1>2, <2>2, <3>1, CheckLengthKeeps DEF Model!RefusedMeansSucceeded
  <2>3. CASE Model!Run(r)
    <3>1. denied' = FALSE
      BY <2>3 DEF Model!Run
    <3> QED
      BY <1>2, <2>3, <3>1, RunKeeps DEF Model!RefusedMeansSucceeded
  <2>4. CASE Model!Push(r)
    <3>1. denied' = FALSE
      BY <2>4 DEF Model!Push
    <3> QED
      BY <1>2, <2>4, <3>1, PushKeeps DEF Model!RefusedMeansSucceeded
  <2>5. CASE Model!Trim(r)
    <3>1. denied' = FALSE
      BY <2>5 DEF Model!Trim
    <3> QED
      BY <1>2, <2>5, <3>1, TrimKeeps DEF Model!RefusedMeansSucceeded
  <2>6. CASE Model!Expire(r)
    <3>1. denied' = FALSE
      BY <2>6 DEF Model!Expire
    <3> QED
      BY <1>2, <2>6, <3>1, ExpireKeeps DEF Model!RefusedMeansSucceeded
  <2> QED
    BY <1>2, <2>1, <2>2, <2>3, <2>4, <2>5, <2>6
<1>3. CASE UNCHANGED modelVars
  <2>1. UNCHANGED <<redis, together, clock, list, ends, check, pc, stamp, successes, denied>>
    BY <1>3 DEF modelVars
  <2>2. ModelInv'
    BY <2>1 DEF ModelInv, ModelTyped, PlacesOK, ListOK, EntriesSucceeded, NothingLost,
                ListKept, RoomForRunning, CheckOK, At, Pending
  <2>3. Model!RefusedMeansSucceeded'
    BY <2>1 DEF Model!RefusedMeansSucceeded, Model!Recent
  <2> QED
    BY <2>2, <2>3
<1> QED
  BY <1>1, <1>2, <1>3 DEF Model!Next

LEMMA ModelLimitOf == ModelInv => Model!ExceededByConcurrency
<1> SUFFICES ASSUME ModelInv, together
             PROVE  Model!Cardinality(Model!Recent)
                      <= ModelMax + Model!Cardinality(Requests) - (IF redis THEN 1 ELSE 0)
  BY DEF Model!ExceededByConcurrency
<1> DEFINE t == clock - ModelDuration
<1>1. ModelTyped /\ Times(check)
  BY DEF ModelInv, ModelTyped
<1>0. t \in Int /\ t <= clock /\ clock - ModelDuration <= t
  <2>1. clock \in Nat /\ ModelDuration \in Nat
    BY <1>1, ModelNumbers
  <2> QED
    BY <2>1
<1>2. /\ ModelMax \in Nat /\ Cardinality(Requests) \in Nat
      /\ Cardinality(Later(successes, t)) \in Nat /\ Cardinality(At("run")) \in Nat
      /\ Cardinality(Later(check, t)) \in Nat /\ Len(check) \in Nat
  BY <1>0, <1>1, ModelNumbers, PlacesFinite
<1>3. /\ Model!Cardinality(Model!Recent) = Cardinality(Later(successes, t))
      /\ Model!Cardinality(Requests) = Cardinality(Requests)
  BY SameCardinality, RecentIsLater
<1>4. CASE redis
  <2>1. Cardinality(Later(successes, t)) + Cardinality(At("run"))
          <= ModelMax + Cardinality(Requests) - 1
    BY <1>4 DEF ModelInv, RoomForRunning
  <2> HIDE DEF t
  <2> QED
    BY <1>2, <1>3, <1>4, <2>1
<1>5. CASE ~redis
  <2>1. Len(check) <= ModelMax
    BY <1>5 DEF ModelInv, CheckOK
  <2>2. Cardinality(Later(successes, t)) + Cardinality(At("run"))
          <= Cardinality(Later(check, t)) + Cardinality(Requests)
    BY <1>0, <1>5 DEF ModelInv, CheckOK
  <2>3. Cardinality(Later(check, t)) <= Len(check)
    BY <1>0, <1>1, LaterAtMostLength
  <2> HIDE DEF t
  <2> QED
    BY <1>2, <1>3, <1>5, <2>1, <2>2, <2>3
<1> QED
  BY <1>4, <1>5

-----------------------------------------------------------------------------
(* The theorems about the limiters and the limit together.                 *)

Limited == LimitInv /\ RefusedMeansFull /\ ModelInv /\ Model!RefusedMeansSucceeded

LEMMA LimitedAlways == MCSpec => []Limited
<1>1. MCInit => Limited
  <2> SUFFICES ASSUME MCInit PROVE Limited
    OBVIOUS
  <2>1. Init /\ Model!Init
    BY DEF MCInit
  <2>2. RefusedMeansFull
    BY <2>1 DEF Init, RefusedMeansFull
  <2>3. Model!RefusedMeansSucceeded
    BY <2>1 DEF Model!Init, Model!RefusedMeansSucceeded
  <2> QED
    BY <2>1, <2>2, <2>3, LimitInit, ModelInitInv DEF Limited
<1>2. Limited /\ [MCNext]_<<part, vars, modelVars, storeVars>> => Limited'
  <2> SUFFICES ASSUME Limited, [MCNext]_<<part, vars, modelVars, storeVars>>
               PROVE  Limited'
    OBVIOUS
  <2>1. [Next]_vars /\ (Model!Next \/ UNCHANGED modelVars)
    BY DEF MCNext
  <2>2. LimitInv' /\ RefusedMeansFull'
    BY <2>1, LimitNext DEF Limited
  <2>3. ModelInv' /\ Model!RefusedMeansSucceeded'
    BY <2>1, ModelNext DEF Limited
  <2> QED
    BY <2>2, <2>3 DEF Limited
<1> QED
  BY <1>1, <1>2, PTL DEF MCSpec

\* LimitsHold for any limit, period, expiration and number of requests: in no period
\* does the in-memory queue admit more than Max calls, the fixed window more than
\* twice Max or the token bucket more than its size and rate allow, and fewer requests
\* than run together exceed the limit on successful model requests.
THEOREM LimitsNeverExceeded == MCSpec => []LimitsHold
<1>1. Limited => LimitsHold
  BY LimitsOf, ModelLimitOf DEF Limited, LimitsHold
<1> QED
  BY <1>1, LimitedAlways, PTL

\* RefusedOnlyAtLimit: a limiter refuses only when its limit is used up, and the limit
\* on successes, with Redis, only when Max requests succeeded in the last period.
THEOREM RefusalsAreEarned == MCSpec => []RefusedOnlyAtLimit
<1>1. Limited => RefusedOnlyAtLimit
  BY DEF Limited, RefusedOnlyAtLimit
<1> QED
  BY <1>1, LimitedAlways, PTL

-----------------------------------------------------------------------------
(* The wallet: QuotaStore, for any requests, amounts and budgets of faults. *)

\* The store runs by its own steps, whatever the limiters do.
LEMMA StoreRuns == MCSpec => Store!Spec
<1>1. MCInit => Store!Init
  BY DEF MCInit
<1>2. [MCNext]_<<part, vars, modelVars, storeVars>> => [Store!Next]_(Store!vars)
  BY DEF MCNext, storeVars, Store!vars
<1> QED
  BY <1>1, <1>2, PTL DEF MCSpec, Store!Spec

\* What is known of a setting.
LEMMA StoreSettingFacts ==
    ASSUME setting \in Settings
    PROVE  /\ Store!Made \subseteq Asks
           /\ Store!MaxWalletQuota \in Nat /\ InitQuota <= Store!MaxWalletQuota
           /\ Store!Redis \in BOOLEAN /\ Store!Batch \in BOOLEAN /\ Store!Warm \in BOOLEAN
           /\ Store!Expiries \in Nat /\ Store!RedisFaults \in Nat
           /\ Store!DBFaults \in Nat /\ Store!Crashes \in Nat
  BY StoreAssumption
     DEF Store!SettingsAssumption, Store!Made, Store!MaxWalletQuota,
         Store!Redis, Store!Batch, Store!Warm, Store!Expiries,
         Store!RedisFaults, Store!DBFaults, Store!Crashes

\* A fault that is spent leaves the budget a budget.
LEMMA SpendType ==
    ASSUME NEW what \in {"expiry", "redis", "db", "crash"},
           budget \in [expiry : Nat, redis : Nat, db : Nat, crash : Nat],
           Store!Spend(what)
    PROVE  budget' \in [expiry : Nat, redis : Nat, db : Nat, crash : Nat]
  BY DEF Store!Spend

\* The first state has the types.
LEMMA TypeInit == Store!Init => Store!TypeOK
  BY StoreSettingFacts, StoreAssumption
     DEF Store!SettingsAssumption, Store!Init, Store!TypeOK, Store!Open,
         Store!Absent, Store!Copy

\* A copy is of the type of the cache.
LEMMA CopyType ==
    ASSUME NEW n \in Int
    PROVE  Store!Copy(n) \in [has : BOOLEAN, quota : Int]
  BY DEF Store!Copy

\* The steps of a request on the cache keep its type.
LEMMA CacheStep ==
    ASSUME Store!TypeOK, NEW r \in Asks,
           \/ Store!ReserveInCache(r) \/ Store!Compensate(r) \/ Store!HydrateWrites(r)
           \/ Store!LagApplies(r)
    PROVE  cache' \in [has : BOOLEAN, quota : Int]
<1>1. /\ cache.quota - Amount[r] \in Int
      /\ cache.quota + Amount[r] \in Int
      /\ cache.quota + lag[r] \in Int
      /\ snap[r] \in Int
  BY StoreAssumption DEF Store!SettingsAssumption, Store!TypeOK
<1>2. \A n \in Int : Store!Copy(n) \in [has : BOOLEAN, quota : Int]
  BY CopyType
<1>3. CASE Store!ReserveInCache(r)
  BY <1>1, <1>2, <1>3 DEF Store!TypeOK, Store!ReserveInCache
<1>4. CASE Store!Compensate(r)
  BY <1>1, <1>2, <1>4 DEF Store!TypeOK, Store!Compensate, Store!Compensation
<1>5. CASE Store!HydrateWrites(r)
  BY <1>1, <1>2, <1>5 DEF Store!TypeOK, Store!HydrateWrites, Store!Filled
<1>6. CASE Store!LagApplies(r)
  BY <1>1, <1>2, <1>6 DEF Store!TypeOK, Store!LagApplies
<1> QED
  BY <1>3, <1>4, <1>5, <1>6

\* The steps of a request keep the types.
LEMMA TypeStep ==
    ASSUME Store!TypeOK, NEW r \in Asks,
           Store!Step(r), setting' = setting
    PROVE  Store!TypeOK'
<1> USE StoreAssumption
       DEF Store!SettingsAssumption, Store!TypeOK, Store!Open, Store!Go,
           Store!Batch
<1>1. CASE Store!ReserveInCache(r)
  <2>1. cache' \in [has : BOOLEAN, quota : Int]
    BY <1>1, CacheStep
  <2> QED
    BY <1>1, <2>1, SpendType DEF Store!ReserveInCache
<1>2. CASE Store!ReserveWithoutRedis(r)
  BY <1>2 DEF Store!ReserveWithoutRedis
<1>3. CASE Store!ReserveInDatabase(r)
  BY <1>3, SpendType DEF Store!ReserveInDatabase, Store!Covered
<1>4. CASE Store!Persist(r)
  BY <1>4, SpendType DEF Store!Persist
<1>5. CASE Store!Compensate(r)
  <2>1. cache' \in [has : BOOLEAN, quota : Int]
    BY <1>5, CacheStep
  <2> QED
    BY <1>5, <2>1, SpendType DEF Store!Compensate
<1>6. CASE Store!ReadWallet(r)
  BY <1>6, SpendType DEF Store!ReadWallet
<1>7. CASE Store!HydrateReads(r)
  BY <1>7, SpendType DEF Store!HydrateReads
<1>8. CASE Store!HydrateWrites(r)
  <2>1. cache' \in [has : BOOLEAN, quota : Int]
    BY <1>8, CacheStep
  <2> QED
    BY <1>8, <2>1, SpendType DEF Store!HydrateWrites, Store!Onward
<1>9. CASE Store!IncreaseUserQuota(r)
  BY <1>9, SpendType DEF Store!IncreaseUserQuota, Store!Batched, Store!Room
<1>10. CASE Store!DecreaseStarts(r)
  BY <1>10 DEF Store!DecreaseStarts
<1>11. CASE Store!DecreaseUserQuota(r)
  BY <1>11, SpendType DEF Store!DecreaseUserQuota
<1>12. CASE Store!LagApplies(r)
  <2>1. cache' \in [has : BOOLEAN, quota : Int]
    BY <1>12, CacheStep
  <2> QED
    BY <1>12, <2>1, SpendType DEF Store!LagApplies
<1> QED
  BY <1>1, <1>2, <1>3, <1>4, <1>5, <1>6, <1>7, <1>8, <1>9, <1>10, <1>11, <1>12
     DEF Store!Step

\* Every step keeps the types.
LEMMA TypeNext == Store!TypeOK /\ [Store!Next]_(Store!vars) => Store!TypeOK'
<1> SUFFICES ASSUME Store!TypeOK, [Store!Next]_(Store!vars) PROVE Store!TypeOK'
  OBVIOUS
<1>0. setting' = setting /\ Store!Made \subseteq Asks
  BY StoreSettingFacts DEF Store!Next, Store!vars, Store!TypeOK
<1> USE <1>0 DEF Store!Batch
<1>1. CASE \E r \in Store!Made : Store!Step(r)
  BY <1>1, TypeStep
<1>2. CASE Store!CacheExpires
  BY <1>2, SpendType DEF Store!CacheExpires, Store!TypeOK, Store!Absent
<1>3. CASE Store!FlushTakes
  BY <1>3 DEF Store!FlushTakes, Store!TypeOK
<1>4. CASE Store!FlushWrites
  BY <1>4, SpendType DEF Store!FlushWrites, Store!Flushed, Store!TypeOK
<1>5. CASE Store!Crash
  BY <1>5, SpendType DEF Store!Crash, Store!TypeOK, Store!Open
<1>6. CASE UNCHANGED Store!vars
  BY <1>6 DEF Store!vars, Store!TypeOK
<1> QED
  BY <1>1, <1>2, <1>3, <1>4, <1>5, <1>6 DEF Store!Next

\* The variables keep their types, and nothing is in a cache or a batch that
\* is not enabled, for every set of requests and every budget of faults.
THEOREM StoreTypeCorrect == MCSpec => []Store!TypeOK
  BY TypeInit, TypeNext, StoreRuns, PTL DEF Store!Spec

-----------------------------------------------------------------------------
(* The store implements the ledger.                                        *)

\* The first state is one of the ledger's.
LEMMA LedgerInit == Store!Init => Store!Ledger!Init
  BY StoreSettingFacts, StoreAssumption
     DEF Store!SettingsAssumption, Store!Init, Store!Ledger!Init, Store!Balance,
         Store!Outcome

\* A request that stays open, or has ended, is seen so.
LEMMA OutcomeOf ==
    ASSUME Store!TypeOK, NEW r \in Asks
    PROVE  /\ at[r] = "done" => Store!Outcome[r] = "accepted"
           /\ at[r] \in {"refused", "failed"} => Store!Outcome[r] = "refused"
           /\ at[r] \in Store!Open => Store!Outcome[r] = "open"
  BY DEF Store!Outcome, Store!Open

\* A request moves from one open place to another: the ledger sees nothing.
LEMMA OutcomeKept ==
    ASSUME Store!TypeOK, NEW r \in Asks, at[r] \in Store!Open,
           NEW place \in Store!Open, Store!Go(r, place)
    PROVE  Store!Outcome' = Store!Outcome
  BY DEF Store!TypeOK, Store!Outcome, Store!Open, Store!Go

\* A request ends: the ledger sees what became of it.
LEMMA OutcomeEnds ==
    ASSUME Store!TypeOK, NEW r \in Asks, at[r] \in Store!Open
    PROVE  /\ Store!Outcome[r] = "open"
           /\ Store!Go(r, "done")
                => Store!Outcome' = [Store!Outcome EXCEPT ![r] = "accepted"]
           /\ Store!Go(r, "refused") \/ Store!Go(r, "failed")
                => Store!Outcome' = [Store!Outcome EXCEPT ![r] = "refused"]
  BY DEF Store!TypeOK, Store!Outcome, Store!Open, Store!Go

\* A request that reaches its end unaccepted, with the balance as it was.
LEMMA AskRefused ==
    ASSUME Store!TypeOK, NEW r \in Asks, at[r] \in Store!Open,
           Store!Go(r, "refused") \/ Store!Go(r, "failed"),
           UNCHANGED <<db, batch, flush>>
    PROVE  Store!Ledger!Refuse(r)
  BY OutcomeEnds DEF Store!Ledger!Refuse, Store!Balance

\* A request that moves on, with the balance as it was.
LEMMA Kept ==
    ASSUME Store!TypeOK, NEW r \in Asks, at[r] \in Store!Open,
           NEW place \in Store!Open, Store!Go(r, place),
           UNCHANGED <<setting, db, batch, flush>>
    PROVE  UNCHANGED Store!Ledger!ledgerVars
  BY OutcomeKept DEF Store!Ledger!ledgerVars, Store!Balance, Store!Batch

\* A request that is accepted, its amount in the row.
LEMMA AcceptedInRow ==
    ASSUME Store!TypeOK, NEW r \in Asks, at[r] \in Store!Open, Store!Go(r, "done"),
           db' = db + Store!DeltaOf[r], UNCHANGED <<batch, flush>>
    PROVE  Store!Ledger!Accept(r)
<1>1. Store!DeltaOf[r] \in Int
  BY StoreAssumption DEF Store!SettingsAssumption, Store!DeltaOf
<1>2. /\ Store!Balance' = Store!Balance + Store!DeltaOf[r]
      /\ (batch + flush)' = batch + flush
  BY <1>1 DEF Store!Balance, Store!TypeOK
<1> QED
  BY <1>2, OutcomeEnds DEF Store!Ledger!Accept

\* A request that is accepted, its amount in the batch.
LEMMA AcceptedInBatch ==
    ASSUME Store!TypeOK, NEW r \in Asks, at[r] \in Store!Open, Store!Go(r, "done"),
           Store!Batch, batch' = batch + Store!DeltaOf[r], UNCHANGED <<db, flush>>
    PROVE  Store!Ledger!Accept(r)
<1>1. Store!DeltaOf[r] \in Int
  BY StoreAssumption DEF Store!SettingsAssumption, Store!DeltaOf
<1>2. /\ Store!Balance' = Store!Balance + Store!DeltaOf[r]
      /\ (batch + flush)' = (batch + flush) + Store!DeltaOf[r]
  BY <1>1 DEF Store!Balance, Store!TypeOK
<1> QED
  BY <1>2, OutcomeEnds DEF Store!Ledger!Accept

\* What the requests add to the balance.
LEMMA DeltaFacts ==
    ASSUME NEW r \in Asks
    PROVE  /\ Kind[r] \in {"reserve", "debit"} => Store!DeltaOf[r] = -Amount[r]
           /\ Kind[r] \in {"credit", "creditdb"} => Store!DeltaOf[r] = Amount[r]
           /\ Kind[r] = "read" => Store!DeltaOf[r] = 0
           /\ Amount[r] \in Nat
  BY StoreAssumption DEF Store!SettingsAssumption, Store!DeltaOf

\* The places a request can be in follow from what it does.
Placed ==
    \A r \in Asks :
        /\ at[r] \in {"again", "persist", "compensate", "database"}
             => Kind[r] = "reserve"
        /\ at[r] = "debit" => Kind[r] = "debit"
        /\ at[r] \in {"hydrate", "hydrated"} => Kind[r] \in {"reserve", "read"}

\* Requests are placed so at first and stay so.
LEMMA PlacedInit == Store!Init => Placed
  BY DEF Store!Init, Placed

LEMMA PlacedNext ==
    Store!TypeOK /\ Placed /\ [Store!Next]_(Store!vars) => Placed'
<1> SUFFICES ASSUME Store!TypeOK, Placed, [Store!Next]_(Store!vars) PROVE Placed'
  OBVIOUS
<1> USE DEF Placed
<1>0. Store!Made \subseteq Asks
  BY StoreSettingFacts DEF Store!TypeOK
<1>1. ASSUME NEW r \in Asks, Store!Step(r) PROVE Placed'
  <2> USE <1>1 DEF Store!Go
  <2>1. CASE Store!ReserveInCache(r) \/ Store!ReserveWithoutRedis(r)
    BY <2>1 DEF Store!ReserveInCache, Store!ReserveWithoutRedis, Store!TypeOK
  <2>2. CASE Store!ReserveInDatabase(r) \/ Store!Persist(r) \/ Store!Compensate(r)
    BY <2>2
       DEF Store!ReserveInDatabase, Store!Persist, Store!Compensate,
           Store!TypeOK
  <2>3. CASE Store!ReadWallet(r) \/ Store!HydrateReads(r) \/ Store!HydrateWrites(r)
    BY <2>3
       DEF Store!ReadWallet, Store!HydrateReads, Store!HydrateWrites,
           Store!Onward, Store!TypeOK
  <2>4. CASE Store!IncreaseUserQuota(r)
    BY <2>4 DEF Store!IncreaseUserQuota, Store!TypeOK
  <2>5. CASE Store!DecreaseStarts(r) \/ Store!DecreaseUserQuota(r) \/ Store!LagApplies(r)
    BY <2>5
       DEF Store!DecreaseStarts, Store!DecreaseUserQuota, Store!LagApplies,
           Store!TypeOK
  <2> QED
    BY <2>1, <2>2, <2>3, <2>4, <2>5 DEF Store!Step
<1>2. CASE \/ Store!CacheExpires \/ Store!FlushTakes \/ Store!FlushWrites
           \/ UNCHANGED Store!vars
  BY <1>2
     DEF Store!CacheExpires, Store!FlushTakes, Store!FlushWrites, Store!vars
<1>3. CASE Store!Crash
  BY <1>3 DEF Store!Crash, Store!Open
<1> QED
  BY <1>0, <1>1, <1>2, <1>3 DEF Store!Next

\* A step of a request is a step of the ledger, or nothing.
LEMMA LedgerStep ==
    ASSUME Store!TypeOK, Placed, NEW r \in Asks,
           Store!Step(r), setting' = setting
    PROVE  \/ Store!Ledger!Accept(r) \/ Store!Ledger!Refuse(r)
           \/ UNCHANGED Store!Ledger!ledgerVars
<1> USE DeltaFacts, AskRefused, Kept, AcceptedInRow, AcceptedInBatch DEF Store!Open
<1>1. CASE Store!ReserveInCache(r)
  BY <1>1 DEF Store!ReserveInCache
<1>2. CASE Store!ReserveWithoutRedis(r)
  BY <1>2 DEF Store!ReserveWithoutRedis
<1>3. CASE Store!ReserveInDatabase(r)
  BY <1>3 DEF Store!ReserveInDatabase, Placed, Store!TypeOK
<1>4. CASE Store!Persist(r)
  BY <1>4 DEF Store!Persist, Placed, Store!TypeOK
<1>5. CASE Store!Compensate(r)
  BY <1>5 DEF Store!Compensate
<1>6. CASE Store!ReadWallet(r)
  BY <1>6 DEF Store!ReadWallet, Store!TypeOK
<1>7. CASE Store!HydrateReads(r)
  BY <1>7 DEF Store!HydrateReads
<1>8. CASE Store!HydrateWrites(r)
  BY <1>8 DEF Store!HydrateWrites, Store!Onward, Store!TypeOK
<1>9. CASE Store!IncreaseUserQuota(r)
  BY <1>9 DEF Store!IncreaseUserQuota, Store!Batched, Store!TypeOK
<1>10. CASE Store!DecreaseStarts(r)
  BY <1>10 DEF Store!DecreaseStarts
<1>11. CASE Store!DecreaseUserQuota(r)
  BY <1>11 DEF Store!DecreaseUserQuota, Placed, Store!TypeOK
<1>12. CASE Store!LagApplies(r)
  BY <1>12
     DEF Store!LagApplies, Store!Ledger!ledgerVars, Store!Balance,
         Store!Outcome, Store!Batch
<1> QED
  BY <1>1, <1>2, <1>3, <1>4, <1>5, <1>6, <1>7, <1>8, <1>9, <1>10, <1>11, <1>12
     DEF Store!Step

\* The end of the process refuses what was open and loses what was not stored.
LEMMA LedgerCrash ==
    ASSUME Store!TypeOK, Store!Crash
    PROVE  Store!Ledger!Lose
<1> DEFINE dead == {r \in Asks : at[r] \in Store!Open \ {"start"}}
<1>1. dead \in SUBSET {r \in Asks : Store!Outcome[r] = "open"}
  BY OutcomeOf
<1>2. Store!Outcome' = [r \in Asks |->
                    IF r \in dead THEN "refused" ELSE Store!Outcome[r]]
  BY DEF Store!Crash, Store!Outcome, Store!TypeOK, Store!Open
<1>3. /\ Store!Balance' - Store!Balance = (batch + flush)' - (batch + flush)
      /\ ~Store!Batch => Store!Balance' = Store!Balance
  BY DEF Store!Crash, Store!Balance, Store!TypeOK
<1> HIDE DEF dead
<1> QED
  BY <1>1, <1>2, <1>3 DEF Store!Ledger!Lose

\* A batch is written, or lost.
LEMMA LedgerFlush ==
    ASSUME Store!TypeOK, Store!FlushWrites
    PROVE  Store!Ledger!Store \/ Store!Ledger!Lose
<1>1. Store!Outcome' = Store!Outcome
  BY DEF Store!FlushWrites, Store!Outcome
<1>2. Store!Batch
  BY DEF Store!FlushWrites, Store!TypeOK
<1>3. CASE db' = db + flush
  <2>1. Store!Balance' = Store!Balance
    BY <1>3 DEF Store!FlushWrites, Store!Flushed, Store!Balance, Store!TypeOK
  <2> QED
    BY <1>1, <1>2, <2>1 DEF Store!Ledger!Store
<1>4. CASE UNCHANGED db
  <2>1. Store!Balance' - Store!Balance = (batch + flush)' - (batch + flush)
    BY <1>4 DEF Store!FlushWrites, Store!Flushed, Store!Balance, Store!TypeOK
  <2>2. Store!Outcome' = [r \in Asks |-> IF r \in {} THEN "refused"
                                      ELSE Store!Outcome[r]]
    BY <1>1 DEF Store!Outcome
  <2>3. {} \in SUBSET {r \in Asks : Store!Outcome[r] = "open"}
    OBVIOUS
  <2> QED
    BY <1>2, <2>1, <2>2, <2>3, Zenon DEF Store!Ledger!Lose
<1> QED
  BY <1>3, <1>4 DEF Store!FlushWrites

\* Every step is a step of the ledger, or nothing.
LEMMA LedgerNext ==
    Store!TypeOK /\ Placed /\ [Store!Next]_(Store!vars)
      => [Store!Ledger!Next]_(Store!Ledger!ledgerVars)
<1> SUFFICES ASSUME Store!TypeOK, Placed, [Store!Next]_(Store!vars)
             PROVE  [Store!Ledger!Next]_(Store!Ledger!ledgerVars)
  OBVIOUS
<1>0. setting' = setting /\ Store!Batch' = Store!Batch /\ Store!Made \subseteq Asks
  BY StoreSettingFacts DEF Store!Next, Store!vars, Store!TypeOK, Store!Batch
<1> USE <1>0
<1>1. CASE \E r \in Store!Made : Store!Step(r)
  BY <1>1, LedgerStep DEF Store!Ledger!Next
<1>2. CASE Store!CacheExpires
  BY <1>2
     DEF Store!CacheExpires, Store!Ledger!ledgerVars, Store!Balance,
         Store!Outcome
<1>3. CASE Store!FlushTakes
  <2>1. Store!Balance' = Store!Balance /\ (batch + flush)' = batch + flush
    BY <1>3 DEF Store!FlushTakes, Store!Balance, Store!TypeOK
  <2> QED
    BY <1>3, <2>1 DEF Store!FlushTakes, Store!Ledger!ledgerVars, Store!Outcome
<1>4. CASE Store!FlushWrites
  BY <1>4, LedgerFlush DEF Store!Ledger!Next
<1>5. CASE Store!Crash
  BY <1>5, LedgerCrash DEF Store!Ledger!Next
<1>6. CASE UNCHANGED Store!vars
  BY <1>6 DEF Store!vars, Store!Ledger!ledgerVars, Store!Balance, Store!Outcome
<1> QED
  BY <1>1, <1>2, <1>3, <1>4, <1>5, <1>6 DEF Store!Next

\* The store implements the ledger for every set of requests, with and without
\* Redis and a batch, whatever expires, fails or dies: a request changes the
\* balance once, by its amount, or not at all, and only what waits in a batch
\* is lost.
THEOREM StoreImplementsLedger == MCSpec => ImplementsLedger
<1>1. Store!TypeOK /\ Placed /\ [Store!Next]_(Store!vars) => (Store!TypeOK /\ Placed)'
  BY TypeNext, PlacedNext
<1>2. Store!Init => Store!TypeOK /\ Placed
  BY TypeInit, PlacedInit
<1> QED
  BY <1>1, <1>2, LedgerInit, LedgerNext, StoreRuns, PTL
     DEF Store!Spec, ImplementsLedger, Store!ImplementsLedger, Store!Ledger!Spec

-----------------------------------------------------------------------------
(* Without Redis reservations are covered.                                 *)

\* Without Redis and without debits nothing is negative, and no request is on
\* the way of a reservation in the cache.
CoveredInv ==
    /\ \A r \in Asks : at[r] \notin {"again", "persist", "compensate",
                                         "hydrate", "hydrated"}
    /\ Store!NoDebit => db >= 0 /\ batch >= 0 /\ flush >= 0

\* It holds at first and is kept.
LEMMA CoveredStep ==
    ASSUME ~Store!Redis, Store!TypeOK, Placed, CoveredInv, NEW r \in Asks, Store!Step(r)
    PROVE  CoveredInv'
<1> USE StoreAssumption
       DEF Store!SettingsAssumption, CoveredInv, Store!NoDebit, Store!Go
<1>1. CASE Store!ReserveWithoutRedis(r)
  BY <1>1 DEF Store!ReserveWithoutRedis, Store!TypeOK
<1>2. CASE Store!ReserveInDatabase(r)
  BY <1>2 DEF Store!ReserveInDatabase, Store!Covered, Store!TypeOK
<1>3. CASE Store!IncreaseUserQuota(r)
  BY <1>3 DEF Store!IncreaseUserQuota, Store!Batched, Store!TypeOK
<1>4. CASE Store!DecreaseStarts(r) \/ Store!DecreaseUserQuota(r)
  BY <1>4
     DEF Store!DecreaseStarts, Store!DecreaseUserQuota, Placed, Store!TypeOK
<1>5. CASE Store!LagApplies(r)
  BY <1>5 DEF Store!LagApplies
<1>6. ~(\/ Store!ReserveInCache(r) \/ Store!Persist(r) \/ Store!Compensate(r)
        \/ Store!ReadWallet(r) \/ Store!HydrateReads(r) \/ Store!HydrateWrites(r))
  BY DEF Store!ReserveInCache, Store!Persist, Store!Compensate,
         Store!ReadWallet, Store!HydrateReads, Store!HydrateWrites
<1> QED
  BY <1>1, <1>2, <1>3, <1>4, <1>5, <1>6 DEF Store!Step

LEMMA CoveredNext ==
    ASSUME ~Store!Redis
    PROVE  Store!TypeOK /\ Placed /\ CoveredInv /\ [Store!Next]_(Store!vars) => CoveredInv'
<1> SUFFICES ASSUME Store!TypeOK, Placed, CoveredInv, [Store!Next]_(Store!vars)
             PROVE  CoveredInv'
  OBVIOUS
<1>0. Store!Made \subseteq Asks
  BY StoreSettingFacts DEF Store!TypeOK
<1>1. CASE \E r \in Store!Made : Store!Step(r)
  BY <1>0, <1>1, CoveredStep
<1>2. CASE Store!CacheExpires \/ UNCHANGED Store!vars
  BY <1>2 DEF Store!CacheExpires, Store!vars, CoveredInv, Store!NoDebit
<1>3. CASE Store!FlushTakes \/ Store!FlushWrites
  BY <1>3
     DEF Store!FlushTakes, Store!FlushWrites, Store!Flushed, CoveredInv,
         Store!NoDebit, Store!TypeOK
<1>4. CASE Store!Crash
  BY <1>4 DEF Store!Crash, CoveredInv, Store!NoDebit, Store!TypeOK, Store!Open
<1> QED
  BY <1>1, <1>2, <1>3, <1>4 DEF Store!Next

-----------------------------------------------------------------------------
(* Sums over the requests.                                                 *)

\* The positive values of a function, as a set that has as many elements as they
\* sum up to: cardinalities add up without an induction.
Units(u) == {p \in (DOMAIN u) \X Nat : 1 <= p[2] /\ p[2] <= u[p[1]]}

Total(u) == Cardinality(Units(u))

Summable(u) == IsFiniteSet(Units(u))

Positive(n) == IF n > 0 THEN n ELSE 0

\* The units of one request.
LEMMA SlabSize ==
    ASSUME NEW r, NEW n \in Int
    PROVE  /\ IsFiniteSet({r} \X (1 .. n))
           /\ Cardinality({r} \X (1 .. n)) = Positive(n)
<1>1. IsFiniteSet({r}) /\ Cardinality({r}) = 1
  BY FS_Singleton
<1>2. IsFiniteSet(1 .. n) /\ Cardinality(1 .. n) = Positive(n)
  BY FS_Interval DEF Positive
<1>3. /\ IsFiniteSet({r} \X (1 .. n))
      /\ Cardinality({r} \X (1 .. n)) = Cardinality({r}) * Cardinality(1 .. n)
  BY <1>1, <1>2, FS_Product
<1>4. 1 * Positive(n) = Positive(n)
  BY DEF Positive
<1> QED
  BY <1>1, <1>2, <1>3, <1>4

LEMMA SlabApart ==
    ASSUME NEW u, NEW r \in DOMAIN u, u[r] \in Int
    PROVE  LET rest == {p \in Units(u) : p[1] # r} IN
           /\ Units(u) = rest \cup ({r} \X (1 .. u[r]))
           /\ rest \cap ({r} \X (1 .. u[r])) = {}
  BY DEF Units

LEMMA DisjointUnion ==
    ASSUME NEW S, NEW T, IsFiniteSet(S), IsFiniteSet(T), S \cap T = {}
    PROVE  /\ IsFiniteSet(S \cup T)
           /\ Cardinality(S \cup T) = Cardinality(S) + Cardinality(T)
<1>1. /\ IsFiniteSet(S \cup T)
      /\ Cardinality(S \cup T) = Cardinality(S) + Cardinality(T) - Cardinality(S \cap T)
  BY FS_Union
<1>2. Cardinality(S) \in Nat /\ Cardinality(T) \in Nat /\ Cardinality(S \cap T) = 0
  BY FS_CardinalityType, FS_EmptySet
<1> QED
  BY <1>1, <1>2

LEMMA OneChanges ==
    ASSUME NEW S, NEW u \in [S -> Int], NEW v \in [S -> Int], NEW r \in S,
           \A q \in S \ {r} : v[q] = u[q], Summable(u)
    PROVE  /\ Summable(v)
           /\ Total(u) \in Nat /\ Total(v) \in Nat
           /\ Total(v) = Total(u) + Positive(v[r]) - Positive(u[r])
<1> DEFINE rest == {p \in Units(u) : p[1] # r}
           a == {r} \X (1 .. u[r])
           b == {r} \X (1 .. v[r])
<1>1. Units(u) = rest \cup a /\ rest \cap a = {}
  BY SlabApart
<1>2. rest = {p \in Units(v) : p[1] # r}
  BY DEF Units
<1>3. Units(v) = rest \cup b /\ rest \cap b = {}
  BY <1>2, SlabApart
<1>4. /\ IsFiniteSet(a) /\ Cardinality(a) = Positive(u[r])
      /\ IsFiniteSet(b) /\ Cardinality(b) = Positive(v[r])
  BY SlabSize
<1>5. IsFiniteSet(rest) /\ Cardinality(rest) \in Nat
  BY FS_Subset, FS_CardinalityType DEF Summable
<1>6. Positive(u[r]) \in Nat /\ Positive(v[r]) \in Nat
  BY DEF Positive
<1> HIDE DEF rest, a, b
<1>7. Total(u) = Cardinality(rest) + Positive(u[r])
  BY <1>1, <1>4, <1>5, DisjointUnion DEF Total
<1>8. Total(v) = Cardinality(rest) + Positive(v[r]) /\ Summable(v)
  BY <1>3, <1>4, <1>5, DisjointUnion DEF Total, Summable
<1> QED
  BY <1>5, <1>6, <1>7, <1>8

LEMMA NothingToSum ==
    ASSUME NEW S, NEW u \in [S -> Int], \A r \in S : u[r] <= 0
    PROVE  Summable(u) /\ Total(u) = 0
<1>1. Units(u) = {}
  BY DEF Units
<1> QED
  BY <1>1, FS_EmptySet DEF Total, Summable

-----------------------------------------------------------------------------
(* A copy that stays.                                                      *)

\* What a request has taken from one of the copy and the balance and not yet
\* from the other.
OwedBy(r) ==
    (IF at[r] \in {"persist", "compensate"} THEN Amount[r] ELSE 0) + lag[r]

Owed == [r \in Asks |-> OwedBy(r)]

\* The copy is there, and nobody goes to the row for want of it.
StaysInv ==
    /\ cache.has
    /\ budget.expiry = 0 /\ budget.redis = 0 /\ budget.crash = 0
    /\ Store!Batch => budget.db = 0
    /\ \A r \in Asks : /\ at[r] \notin {"again", "database", "hydrate", "hydrated"}
                       /\ at[r] = "start" => lag[r] = 0

\* The balance is what the copy says and what the requests owe it.
AgreesInv ==
    /\ Summable(Owed)
    /\ cache.quota >= 0
    /\ Store!Balance = cache.quota + Total(Owed)
    /\ \A r \in Asks : lag[r] >= 0

SteadyInv == Store!Steady => StaysInv /\ (Store!NoDebit => AgreesInv)

\* What one request owes changes by n, and so does what they owe together.
LEMMA OwedChanges ==
    ASSUME Store!TypeOK, AgreesInv, NEW r \in Asks, NEW n \in Int,
           Store!TypeOK', OwedBy(r)' = OwedBy(r) + n, 0 <= OwedBy(r) + n,
           \A q \in Asks \ {r} : at'[q] = at[q] /\ lag'[q] = lag[q]
    PROVE  /\ Summable(Owed') /\ Total(Owed) \in Nat /\ Total(Owed') \in Nat
           /\ Total(Owed') = Total(Owed) + n
<1>1. Owed \in [Asks -> Int] /\ Owed' \in [Asks -> Int]
  BY StoreAssumption DEF Store!SettingsAssumption, Owed, OwedBy, Store!TypeOK
<1>2. PICK u \in [Asks -> Int] : u = Owed
  BY <1>1
<1>3. PICK v \in [Asks -> Int] : v = Owed'
  BY <1>1
<1>4. \A q \in Asks \ {r} : v[q] = u[q]
  BY <1>2, <1>3 DEF Owed, OwedBy
<1>5. u[r] = OwedBy(r) /\ v[r] = OwedBy(r)'
  BY <1>2, <1>3 DEF Owed
<1>6. /\ Summable(v) /\ Total(u) \in Nat /\ Total(v) \in Nat
      /\ Total(v) = Total(u) + Positive(v[r]) - Positive(u[r])
  BY <1>2, <1>4, OneChanges DEF AgreesInv
<1>7. OwedBy(r) \in Int /\ OwedBy(r) >= 0
  BY StoreAssumption
     DEF Store!SettingsAssumption, OwedBy, Store!TypeOK, AgreesInv
<1>8. Positive(u[r]) = u[r] /\ Positive(v[r]) = u[r] + n
  BY <1>5, <1>7 DEF Positive
<1> QED
  BY <1>2, <1>3, <1>5, <1>6, <1>7, <1>8

\* Nothing that the requests owe changes.
LEMMA OwedKept ==
    ASSUME \A q \in Asks : OwedBy(q)' = OwedBy(q) PROVE Owed' = Owed
  BY DEF Owed

LEMMA StaysStep ==
    ASSUME Store!Steady, Store!TypeOK, Placed, StaysInv, NEW r \in Asks,
           Store!Step(r), setting' = setting
    PROVE  StaysInv'
<1> USE StoreAssumption
       DEF Store!SettingsAssumption, StaysInv, Store!Go, Store!Steady,
           Store!Spend
<1>1. CASE Store!ReserveInCache(r)
  BY <1>1 DEF Store!ReserveInCache, Store!TypeOK, Store!Copy, Store!Batch
<1>2. CASE Store!Persist(r)
  BY <1>2 DEF Store!Persist, Store!TypeOK, Store!Batch
<1>3. CASE Store!Compensate(r)
  BY <1>3 DEF Store!Compensate, Store!TypeOK, Store!Copy, Store!Batch
<1>4. CASE Store!ReadWallet(r)
  BY <1>4 DEF Store!ReadWallet, Store!TypeOK, Store!Batch
<1>5. CASE Store!IncreaseUserQuota(r)
  BY <1>5 DEF Store!IncreaseUserQuota, Store!Batched, Store!TypeOK, Store!Batch
<1>6. CASE Store!DecreaseStarts(r)
  BY <1>6 DEF Store!DecreaseStarts, Store!TypeOK, Store!Batch
<1>6a. CASE Store!DecreaseUserQuota(r)
  BY <1>6a DEF Store!DecreaseUserQuota, Store!TypeOK, Store!Batch
<1>7. CASE Store!LagApplies(r)
  BY <1>7 DEF Store!LagApplies, Store!TypeOK, Store!Copy, Store!Batch
<1>8. ~(\/ Store!ReserveWithoutRedis(r) \/ Store!ReserveInDatabase(r)
        \/ Store!HydrateReads(r) \/ Store!HydrateWrites(r))
  BY DEF Store!ReserveWithoutRedis, Store!ReserveInDatabase, Store!HydrateReads,
         Store!HydrateWrites
<1> QED
  BY <1>1, <1>2, <1>3, <1>4, <1>5, <1>6, <1>6a, <1>7, <1>8 DEF Store!Step

\* How a step of a request moves the copy, the balance and what is owed, when no
\* debit is made: the copy by c, the balance by b, the debt by b - c.
StoreMoves(r, c, b) ==
    /\ cache'.quota = cache.quota + c
    /\ Store!Balance' = Store!Balance + b
    /\ OwedBy(r)' = OwedBy(r) + (b - c)
    /\ lag'[r] >= 0

LEMMA StepMoves ==
    ASSUME Store!Steady, Store!TypeOK, Store!TypeOK', Placed, StaysInv, AgreesInv,
           Store!NoDebit',
           NEW r \in Asks,
           Store!Step(r), setting' = setting
    PROVE  /\ \A q \in Asks \ {r} : at'[q] = at[q] /\ lag'[q] = lag[q]
           /\ \/ UNCHANGED <<cache, db, batch, flush>> /\ OwedBy(r)' = OwedBy(r) /\ lag'[r] >= 0
              \/ Amount[r] <= cache.quota /\ StoreMoves(r, -Amount[r], 0)
              \/ at[r] \in {"persist", "compensate"}
                 /\ (StoreMoves(r, 0, -Amount[r]) \/ StoreMoves(r, Amount[r], 0))
              \/ StoreMoves(r, 0, Amount[r])
              \/ StoreMoves(r, lag[r], 0)
<1> USE StoreAssumption
       DEF Store!SettingsAssumption, StaysInv, Store!Go, Store!Steady,
           Store!Spend, OwedBy, StoreMoves, Store!Balance
<1>0. Amount[r] \in Nat /\ lag[r] \in Int /\ lag[r] >= 0
  BY DEF Store!TypeOK, AgreesInv
<1>1. CASE Store!ReserveInCache(r)
  BY <1>0, <1>1 DEF Store!ReserveInCache, Store!TypeOK, Store!Copy, Store!Enough
<1>2. CASE Store!Persist(r)
  BY <1>0, <1>2 DEF Store!Persist, Store!TypeOK
<1>3. CASE Store!Compensate(r)
  BY <1>0, <1>3
     DEF Store!Compensate, Store!TypeOK, Store!Copy, Store!Compensation
<1>4. CASE Store!ReadWallet(r)
  BY <1>0, <1>4 DEF Store!ReadWallet, Store!TypeOK
<1>5. CASE Store!IncreaseUserQuota(r)
  <2>1. at[r] = "start" /\ lag[r] = 0 /\ cache' = cache /\ flush' = flush /\ Store!Redis
    BY <1>5 DEF Store!IncreaseUserQuota
  <2>2. CASE Store!Go(r, "refused") /\ UNCHANGED <<db, batch, lag>>
    BY <1>0, <2>1, <2>2 DEF Store!TypeOK
  <2>3. CASE /\ Store!Go(r, "done")
             /\ lag' = [lag EXCEPT ![r] = IF Store!Redis THEN Amount[r] ELSE 0]
             /\ \/ batch' = batch + Amount[r] /\ db' = db
                \/ batch' = batch /\ db' = db + Amount[r]
    <3>1. lag'[r] = Amount[r] /\ at'[r] = "done"
      BY <2>1, <2>3 DEF Store!TypeOK
    <3>2. \A q \in Asks \ {r} : at'[q] = at[q] /\ lag'[q] = lag[q]
      BY <2>3 DEF Store!TypeOK
    <3>3. Store!Balance' = Store!Balance + Amount[r]
      BY <1>0, <2>1, <2>3 DEF Store!TypeOK
    <3>4. cache'.quota = cache.quota + 0
      BY <2>1 DEF Store!TypeOK
    <3>5. StoreMoves(r, 0, Amount[r])
      BY <1>0, <2>1, <3>1, <3>3, <3>4
    <3> QED
      BY <3>2, <3>5
  <2> QED
    BY <1>5, <2>2, <2>3 DEF Store!IncreaseUserQuota
<1>6. ~(Store!DecreaseStarts(r) \/ Store!DecreaseUserQuota(r))
  BY DEF Store!DecreaseStarts, Store!DecreaseUserQuota, Store!TypeOK,
         Store!NoDebit, Placed
<1>7. CASE Store!LagApplies(r)
  BY <1>0, <1>7 DEF Store!LagApplies, Store!TypeOK, Store!Copy
<1>8. ~(\/ Store!ReserveWithoutRedis(r) \/ Store!ReserveInDatabase(r)
        \/ Store!HydrateReads(r) \/ Store!HydrateWrites(r))
  BY DEF Store!ReserveWithoutRedis, Store!ReserveInDatabase, Store!HydrateReads,
         Store!HydrateWrites
<1> QED
  BY <1>1, <1>2, <1>3, <1>4, <1>5, <1>6, <1>7, <1>8 DEF Store!Step

LEMMA AgreesStep ==
    ASSUME Store!Steady, Store!TypeOK, Store!TypeOK', Placed, StaysInv, AgreesInv,
           Store!NoDebit',
           NEW r \in Asks,
           Store!Step(r), setting' = setting
    PROVE  AgreesInv'
<1>1. \A q \in Asks \ {r} : at'[q] = at[q] /\ lag'[q] = lag[q]
  BY StepMoves
<1>2. /\ cache.quota \in Int /\ cache.quota >= 0 /\ Store!Balance \in Int
      /\ Amount[r] \in Nat /\ lag[r] \in Int /\ lag[r] >= 0
      /\ OwedBy(r) \in Int /\ OwedBy(r) >= lag[r]
      /\ at[r] \in {"persist", "compensate"} => OwedBy(r) >= Amount[r]
      /\ Summable(Owed) /\ Store!Balance = cache.quota + Total(Owed)
  BY StoreAssumption
     DEF Store!SettingsAssumption, Store!TypeOK, AgreesInv, Store!Balance,
         OwedBy
<1>3. ASSUME lag'[r] >= 0 PROVE \A q \in Asks : lag'[q] >= 0
  BY <1>1, <1>3 DEF AgreesInv
<1>4. CASE UNCHANGED <<cache, db, batch, flush>> /\ OwedBy(r)' = OwedBy(r) /\ lag'[r] >= 0
  <2>1. Owed' = Owed
    BY <1>1, <1>4, OwedKept DEF OwedBy
  <2>2. Store!Balance' = Store!Balance
    BY <1>4 DEF Store!Balance
  <2> QED
    BY <1>2, <1>3, <1>4, <2>1, <2>2 DEF AgreesInv
<1>5. ASSUME NEW c \in Int, NEW b \in Int, StoreMoves(r, c, b), 0 <= OwedBy(r) + (b - c),
             0 <= cache.quota + c
      PROVE  AgreesInv'
  <2>1. PICK n \in Int : n = b - c
    OBVIOUS
  <2>2. OwedBy(r)' = OwedBy(r) + n /\ 0 <= OwedBy(r) + n
    BY <1>5, <2>1 DEF StoreMoves
  <2>3. /\ Summable(Owed') /\ Total(Owed) \in Nat /\ Total(Owed') \in Nat
        /\ Total(Owed') = Total(Owed) + n
    BY <1>1, <2>2, OwedChanges
  <2>4. Store!Balance' = cache'.quota + Total(Owed') /\ cache'.quota >= 0
    BY <1>2, <1>5, <2>1, <2>3 DEF StoreMoves
  <2> QED
    BY <1>3, <1>5, <2>3, <2>4 DEF AgreesInv, StoreMoves
<1>6. CASE Amount[r] <= cache.quota /\ StoreMoves(r, -Amount[r], 0)
  <2>1. /\ -Amount[r] \in Int /\ 0 <= OwedBy(r) + (0 - (-Amount[r]))
        /\ 0 <= cache.quota + (-Amount[r])
    BY <1>2, <1>6
  <2> QED
    BY <1>5, <1>6, <2>1
<1>7. CASE at[r] \in {"persist", "compensate"} /\ StoreMoves(r, 0, -Amount[r])
  <2>1. /\ -Amount[r] \in Int /\ 0 <= OwedBy(r) + (-Amount[r] - 0)
        /\ 0 <= cache.quota + 0
    BY <1>2, <1>7
  <2> QED
    BY <1>5, <1>7, <2>1
<1>8. CASE at[r] \in {"persist", "compensate"} /\ StoreMoves(r, Amount[r], 0)
  <2>1. 0 <= OwedBy(r) + (0 - Amount[r]) /\ 0 <= cache.quota + Amount[r] /\ Amount[r] \in Int
    BY <1>2, <1>8
  <2> QED
    BY <1>5, <1>8, <2>1
<1>9. CASE StoreMoves(r, 0, Amount[r])
  <2>1. 0 <= OwedBy(r) + (Amount[r] - 0) /\ 0 <= cache.quota + 0 /\ Amount[r] \in Int
    BY <1>2
  <2> QED
    BY <1>5, <1>9, <2>1
<1>10. CASE StoreMoves(r, lag[r], 0)
  <2>1. 0 <= OwedBy(r) + (0 - lag[r]) /\ 0 <= cache.quota + lag[r]
    BY <1>2
  <2> QED
    BY <1>2, <1>5, <1>10, <2>1
<1> QED
  BY <1>4, <1>6, <1>7, <1>8, <1>9, <1>10, StepMoves

LEMMA SteadyNext ==
    Store!TypeOK /\ Placed /\ SteadyInv /\ [Store!Next]_(Store!vars) => SteadyInv'
<1> SUFFICES ASSUME Store!TypeOK, Placed, SteadyInv, [Store!Next]_(Store!vars)
             PROVE  SteadyInv'
  OBVIOUS
<1>1. setting' = setting /\ Store!Made \subseteq Asks
  BY StoreSettingFacts DEF Store!Next, Store!vars, Store!TypeOK
<1>2. (Store!Steady' <=> Store!Steady) /\ Store!Batch' = Store!Batch
  BY <1>1
     DEF Store!Steady, Store!Redis, Store!Warm, Store!Expiries,
         Store!RedisFaults, Store!Crashes, Store!Batch, Store!DBFaults
<1> SUFFICES ASSUME Store!Steady PROVE StaysInv' /\ (Store!NoDebit' => AgreesInv')
  BY <1>2 DEF SteadyInv
<1>3. StaysInv /\ (Store!NoDebit => AgreesInv)
  BY DEF SteadyInv
<1>4. Store!TypeOK'
  BY TypeNext
<1>5. Store!NoDebit' => Store!NoDebit
  <2>1. CASE \E r \in Store!Made : Store!Step(r)
    <3>1. PICK r \in Asks : Store!Step(r)
      BY <1>1, <2>1
    <3>2. \A q \in Asks : at'[q] = "start" => at[q] = "start"
      BY <3>1
         DEF Store!Step, Store!Go, Store!TypeOK, Store!ReserveInCache,
             Store!ReserveWithoutRedis, Store!ReserveInDatabase, Store!Persist,
             Store!Compensate, Store!ReadWallet, Store!HydrateReads,
             Store!HydrateWrites, Store!Onward, Store!IncreaseUserQuota,
             Store!DecreaseStarts, Store!DecreaseUserQuota, Store!LagApplies
    <3> QED
      BY <3>2 DEF Store!NoDebit
  <2>2. CASE \/ Store!CacheExpires \/ Store!FlushTakes \/ Store!FlushWrites
             \/ UNCHANGED Store!vars
    BY <2>2
       DEF Store!CacheExpires, Store!FlushTakes, Store!FlushWrites, Store!vars,
           Store!NoDebit
  <2>3. CASE Store!Crash
    BY <2>3 DEF Store!Crash, Store!NoDebit, Store!Open
  <2> QED
    BY <2>1, <2>2, <2>3 DEF Store!Next
<1>6. ASSUME NEW r \in Asks, Store!Step(r) PROVE StaysInv' /\ (Store!NoDebit' => AgreesInv')
  BY <1>1, <1>3, <1>4, <1>5, <1>6, StaysStep, AgreesStep
<1>7. ~Store!CacheExpires /\ ~Store!Crash
  BY <1>3 DEF StaysInv, Store!CacheExpires, Store!Crash, Store!Spend
<1>8. ASSUME UNCHANGED <<cache, at, lag, budget>>, Store!Balance' = Store!Balance
      PROVE  StaysInv' /\ (Store!NoDebit' => AgreesInv')
  <2>1. Owed' = Owed
    BY <1>8, OwedKept DEF OwedBy
  <2>2. StaysInv'
    BY <1>2, <1>3, <1>8 DEF StaysInv
  <2>3. AgreesInv => AgreesInv'
    BY <1>8, <2>1 DEF AgreesInv
  <2> QED
    BY <1>3, <1>5, <2>2, <2>3
<1>9. CASE Store!FlushTakes
  <2>1. Store!Balance' = Store!Balance
    BY <1>9 DEF Store!FlushTakes, Store!Balance, Store!TypeOK
  <2> QED
    BY <1>8, <1>9, <2>1 DEF Store!FlushTakes
<1>10. CASE Store!FlushWrites
  <2>1. db' = db + flush /\ flush' = 0 /\ UNCHANGED <<cache, batch, at, lag, budget>>
    BY <1>3, <1>10
       DEF Store!FlushWrites, Store!Flushed, Store!Spend, StaysInv, Store!TypeOK
  <2>2. Store!Balance' = Store!Balance
    BY <2>1 DEF Store!Balance, Store!TypeOK
  <2> QED
    BY <1>8, <2>1, <2>2
<1>11. CASE UNCHANGED Store!vars
  BY <1>8, <1>11 DEF Store!vars, Store!Balance
<1> QED
  BY <1>1, <1>6, <1>7, <1>9, <1>10, <1>11 DEF Store!Next

LEMMA SteadyInit == Store!Init => SteadyInv
<1> SUFFICES ASSUME Store!Init, Store!Steady PROVE StaysInv /\ AgreesInv
  BY DEF SteadyInv
<1>1. cache = Store!Copy(InitQuota) /\ InitQuota \in Nat
  BY StoreAssumption DEF Store!SettingsAssumption, Store!Init, Store!Steady
<1>2. StaysInv
  BY <1>1 DEF Store!Init, StaysInv, Store!Steady, Store!Copy
<1>3. ASSUME NEW r \in Asks PROVE OwedBy(r) = 0
  BY StoreAssumption DEF Store!SettingsAssumption, Store!Init, OwedBy
<1>4. Owed \in [Asks -> Int] /\ \A r \in Asks : Owed[r] <= 0
  BY <1>3 DEF Owed
<1>5. Summable(Owed) /\ Total(Owed) = 0
  <2>1. PICK u \in [Asks -> Int] : u = Owed
    BY <1>4
  <2> QED
    BY <1>4, <2>1, NothingToSum
<1>6. cache.quota = InitQuota /\ Store!Balance = InitQuota
  BY <1>1 DEF Store!Copy, Store!Init, Store!Balance
<1> QED
  BY <1>1, <1>2, <1>5, <1>6 DEF AgreesInv, Store!Init

\* At rest nobody owes anything.
LEMMA RestOwesNothing ==
    ASSUME Store!TypeOK, Store!AtRest
    PROVE  Total(Owed) = 0
<1>1. ASSUME NEW r \in Asks PROVE OwedBy(r) = 0
  BY StoreAssumption
     DEF Store!SettingsAssumption, Store!AtRest, Store!Open, OwedBy
<1>2. Owed \in [Asks -> Int] /\ \A r \in Asks : Owed[r] <= 0
  BY <1>1 DEF Owed
<1>3. PICK u \in [Asks -> Int] : u = Owed
  BY <1>2
<1> QED
  BY <1>2, <1>3, NothingToSum

-----------------------------------------------------------------------------
(* The ceiling.                                                            *)

UnderCeiling == ~Store!Batch => db <= Store!MaxWalletQuota

LEMMA CeilingNext ==
    Store!TypeOK /\ UnderCeiling /\ [Store!Next]_(Store!vars) => UnderCeiling'
<1> SUFFICES ASSUME Store!TypeOK, UnderCeiling, [Store!Next]_(Store!vars), ~Store!Batch
             PROVE  db' <= Store!MaxWalletQuota
  BY DEF UnderCeiling, Store!Batch, Store!MaxWalletQuota, Store!Next, Store!vars
<1>1. /\ Store!Made \subseteq Asks /\ Store!MaxWalletQuota \in Nat /\ db \in Int
      /\ db <= Store!MaxWalletQuota /\ \A r \in Asks : Amount[r] \in Nat
  BY StoreSettingFacts, StoreAssumption
     DEF Store!SettingsAssumption, Store!TypeOK, UnderCeiling
<1>2. ASSUME NEW r \in Asks, Store!Step(r) PROVE db' <= Store!MaxWalletQuota
  <2>1. CASE Store!IncreaseUserQuota(r)
    BY <1>1, <2>1 DEF Store!IncreaseUserQuota, Store!Batched, Store!Room
  <2>2. CASE Store!ReserveInDatabase(r) \/ Store!Persist(r) \/ Store!DecreaseUserQuota(r)
    BY <1>1, <2>2
       DEF Store!ReserveInDatabase, Store!Persist, Store!DecreaseUserQuota
  <2> QED
    BY <1>1, <1>2, <2>1, <2>2
       DEF Store!Step, Store!ReserveInCache, Store!ReserveWithoutRedis,
           Store!Compensate, Store!ReadWallet, Store!HydrateReads,
           Store!HydrateWrites, Store!DecreaseStarts, Store!LagApplies
<1>3. ~Store!FlushWrites
  BY DEF Store!FlushWrites, Store!TypeOK
<1> QED
  BY <1>1, <1>2, <1>3
     DEF Store!Next, Store!CacheExpires, Store!FlushTakes, Store!Crash,
         Store!vars

-----------------------------------------------------------------------------
StoreInv ==
    /\ Store!TypeOK /\ Placed /\ SteadyInv /\ UnderCeiling
    /\ ~Store!Redis => CoveredInv

LEMMA StoreAlways == MCSpec => []StoreInv
<1>1. Store!Init => StoreInv
  <2> SUFFICES ASSUME Store!Init PROVE StoreInv
    OBVIOUS
  <2>1. UnderCeiling
    BY StoreSettingFacts, StoreAssumption
       DEF Store!SettingsAssumption, Store!Init, UnderCeiling
  <2>2. CoveredInv
    BY StoreAssumption DEF Store!SettingsAssumption, Store!Init, CoveredInv
  <2> QED
    BY <2>1, <2>2, TypeInit, PlacedInit, SteadyInit DEF StoreInv
<1>2. StoreInv /\ [Store!Next]_(Store!vars) => StoreInv'
  <2>1. [Store!Next]_(Store!vars) => (Store!Redis' <=> Store!Redis)
    BY DEF Store!Next, Store!vars, Store!Redis
  <2> QED
    BY <2>1, TypeNext, PlacedNext, SteadyNext, CeilingNext, CoveredNext
       DEF StoreInv
<1> QED
  BY <1>1, <1>2, StoreRuns, PTL DEF Store!Spec

\* Without Redis the condition in the database alone keeps every reservation
\* covered, with and without a batch (reserveUserQuotaDB); with a copy that
\* stays the script does (userQuotaReserveScript), whatever statements on the
\* row fail; and without a batch no credit takes the row over the ceiling.
THEOREM ReservationsAreCovered == MCSpec => []WalletCovered
<1>1. StoreInv => WalletCovered
  <2> SUFFICES ASSUME StoreInv PROVE WalletCovered
    OBVIOUS
  <2>1. ASSUME ~Store!Redis, Store!NoDebit PROVE Store!Balance >= 0
    BY <2>1 DEF StoreInv, CoveredInv, Store!Balance, Store!TypeOK
  <2>2. ASSUME Store!Steady, Store!NoDebit PROVE Store!Balance >= 0
    <3>1. AgreesInv /\ cache.quota \in Int
      BY <2>2 DEF StoreInv, SteadyInv, Store!TypeOK
    <3>2. Total(Owed) \in Nat
      BY <3>1, FS_CardinalityType DEF AgreesInv, Summable, Total
    <3> QED
      BY <3>1, <3>2 DEF AgreesInv
  <2> QED
    BY <2>1, <2>2 DEF WalletCovered, Store!WalletCovered, StoreInv, UnderCeiling
<1> QED
  BY <1>1, StoreAlways, PTL

\* A copy that stays agrees with the balance whenever nothing is on its way:
\* what a request took from the one it has taken from the other, or given back
\* (persistUserQuotaDelta, and the compensation when it fails).
THEOREM StayingCopyAgrees == MCSpec => []CopyAgrees
<1>1. StoreInv => CopyAgrees
  <2> SUFFICES ASSUME StoreInv, Store!Steady, Store!NoDebit, Store!AtRest
               PROVE  cache.has /\ cache.quota = Store!Balance
    BY DEF CopyAgrees, Store!CopyAgrees
  <2>1. AgreesInv /\ StaysInv /\ cache.quota \in Int
    BY DEF StoreInv, SteadyInv, Store!TypeOK
  <2>2. Total(Owed) = 0
    BY RestOwesNothing DEF StoreInv
  <2> QED
    BY <2>1, <2>2 DEF AgreesInv, StaysInv
<1> QED
  BY <1>1, StoreAlways, PTL
=============================================================================
