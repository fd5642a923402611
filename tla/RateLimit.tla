----------------------------- MODULE RateLimit -----------------------------
(***************************************************************************)
(* One key of a rate limiter, used at any times: which requests it admits. *)
(* The scripts run atomically in Redis and the queue is kept under a       *)
(* mutex, so a call is one step; the sweep of the queues runs beside them. *)
(***************************************************************************)
EXTENDS RateLimiters, FiniteSets

CONSTANTS
  Limiters,     \* among "window", "queue" and "bucket"
  Max,          \* the number of requests
  Duration,     \* in this many seconds
  Expiration,   \* expirationDuration of InMemoryRateLimiter
  MaxOver,      \* bound on the refused calls a window counts
  MaxTime       \* bound on the clock

ASSUME ConstantsOK ==
  /\ Limiters \subseteq {"window", "queue", "bucket"}
  /\ Max \in Nat \ {0} /\ Duration \in Nat \ {0}
  /\ Expiration \in Nat \ {0} /\ MaxOver \in Nat /\ MaxTime \in Nat

VARIABLES
  limiter,      \* the limiter in use
  now, key, admitted, refused

vars == <<limiter, now, key, admitted, refused>>

Empty == CASE limiter = "window" -> NoWindow
           [] limiter = "queue"  -> <<>>
           [] limiter = "bucket" -> NoBucket

Init ==
  /\ limiter \in Limiters
  /\ now = 0
  /\ key = Empty
  /\ admitted = <<>>      \* history: the times of the requests let through
  /\ refused = FALSE      \* history: the last step refused a request

Tick ==
  /\ now < MaxTime
  /\ now' = now + 1
  /\ refused' = FALSE
  /\ UNCHANGED <<limiter, key, admitted>>

Answered(call) ==
  /\ key' = call.left
  /\ admitted' = IF call.allowed THEN Append(admitted, now) ELSE admitted
  /\ refused' = ~call.allowed
  /\ UNCHANGED <<limiter, now>>

Counted == limiter = "window" /\ (key.count < Max + MaxOver \/ now >= key.ends)

\* Mutant: the expiry is renewed with every call.
TakeRenewed ==
  /\ Counted
  /\ LET call == redisFixedWindowTake(key, now, Max, Duration)
     IN Answered([call EXCEPT !.left.ends = now + Duration])

Take == Counted /\ Answered(redisFixedWindowTake(key, now, Max, Duration))

Queue ==
  /\ limiter = "queue"
  /\ Answered(Request(key, now, Max, Duration))

clearExpiredItems ==
  /\ limiter = "queue"
  /\ Expired(key, now, Expiration)
  /\ key' = <<>>
  /\ refused' = FALSE
  /\ UNCHANGED <<limiter, now, admitted>>

\* Mutant: the time of a refused call is not kept, and its refill counts again.
BucketTwice ==
  /\ limiter = "bucket"
  /\ LET call == Allow(key, now, Max, Duration)
     IN Answered(IF call.allowed \/ key = NoBucket THEN call
                 ELSE [call EXCEPT !.left.last = key.last])

\* Mutant: a refused call leaves the bucket as it was, but for its time.
BucketDrained ==
  /\ limiter = "bucket"
  /\ LET call == Allow(key, now, Max, Duration)
     IN Answered(IF call.allowed THEN call
                 ELSE [call EXCEPT !.left.tokens = key.tokens])

Bucket ==
  /\ limiter = "bucket"
  /\ Answered(Allow(key, now, Max, Duration))

Next == Tick \/ Take \/ Queue \/ clearExpiredItems \/ Bucket

Spec == Init /\ [][Next]_vars

-----------------------------------------------------------------------------
\* The requests admitted in the last Duration seconds.
Recent == {i \in DOMAIN admitted : admitted[i] > now - Duration}

\* The queue keeps to its number: no Duration seconds see more than Max requests,
\* as long as the store keeps a key for that long.  (The window and the bucket
\* admit more, and so does the queue when it is swept earlier.)
AtMostMax ==
  limiter = "queue" /\ Duration <= Expiration => Cardinality(Recent) <= Max

\* The fixed window lets at most twice the number through in any Duration
\* seconds, as the comment on its script says.
AtMostTwice == limiter = "window" => Cardinality(Recent) <= 2 * Max

\* No request is refused unless Max requests were admitted in the last Duration
\* seconds: refused calls, sweeps and refills take nothing away from anybody.
RefusedMeansFull == refused => Cardinality(Recent) >= Max

\* The bucket admits in every interval at most a full bucket and what flows in.
BucketConforms == limiter = "bucket" =>
  \A i, j \in DOMAIN admitted : i <= j =>
    (j - i + 1) * Duration <= (Duration + admitted[j] - admitted[i]) * Max
=============================================================================
