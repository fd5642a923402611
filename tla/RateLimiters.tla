--------------------------- MODULE RateLimiters ---------------------------
(***************************************************************************)
(* The three rate limiters, each as what one call answers and leaves       *)
(* behind: the fixed window and the token bucket of the Redis scripts, and *)
(* the queue of InMemoryRateLimiter.  Times are in seconds, the unit of    *)
(* all three.                                                              *)
(***************************************************************************)
EXTENDS Integers, Sequences

\* redisFixedWindowScript: a counter that expires a window after its first use.
NoWindow == [count |-> 0, ends |-> 0]

redisFixedWindowTake(window, now, max, duration) ==
  LET fresh == window.count = 0 \/ now >= window.ends
      count == IF fresh THEN 1 ELSE window.count + 1
  IN [allowed |-> count <= max,
      left |-> [count |-> count,
                ends |-> IF fresh THEN now + duration ELSE window.ends]]

\* Mutant: a request is let through although the window is not over.
RequestEarly(queue, now, max, duration) ==
  IF queue = <<>> \/ Len(queue) < max
  THEN [allowed |-> TRUE, left |-> Append(queue, now)]
  ELSE IF now - Head(queue) >= duration - 1
  THEN [allowed |-> TRUE, left |-> Append(Tail(queue), now)]
  ELSE [allowed |-> FALSE, left |-> queue]

\* InMemoryRateLimiter.Request: the times of the last max requests, oldest first;
\* an absent key is the empty queue.
Request(queue, now, max, duration) ==
  IF queue = <<>> \/ Len(queue) < max
  THEN [allowed |-> TRUE, left |-> Append(queue, now)]
  ELSE IF now - Head(queue) >= duration
  THEN [allowed |-> TRUE, left |-> Append(Tail(queue), now)]
  ELSE [allowed |-> FALSE, left |-> queue]

\* clearExpiredItems, for one key.
Expired(queue, now, expiration) ==
  queue # <<>> /\ now - queue[Len(queue)] > expiration

\* rate_limit.lua, called with rate = max, capacity = max * duration and
\* requested = duration.
NoBucket == [tokens |-> -1, last |-> 0]

rateLimitCapacity(count, duration) == count * duration

Refilled(bucket, now, rate, capacity) ==
  IF bucket = NoBucket THEN capacity
  ELSE LET tokens == bucket.tokens + (now - bucket.last) * rate
       IN IF tokens < capacity THEN tokens ELSE capacity

Allow(bucket, now, max, duration) ==
  LET tokens == Refilled(bucket, now, max, rateLimitCapacity(max, duration))
      allowed == tokens >= duration
  IN [allowed |-> allowed,
      left |-> [tokens |-> IF allowed THEN tokens - duration ELSE tokens,
                last |-> now]]
=============================================================================
