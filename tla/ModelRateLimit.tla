-------------------------- MODULE ModelRateLimit --------------------------
(***************************************************************************)
(* The limit on successful model requests of one user.                     *)
(*                                                                         *)
(* With Redis a request asks for the length of the list of successes, then *)
(* for its oldest entry, runs, and if it succeeds pushes its time, trims   *)
(* the list and renews its expiry, one command each.  Without Redis the    *)
(* limit is checked, and counted, with Request on a key of its own.        *)
(* The limit on all requests, which comes before or after, is RateLimit.   *)
(***************************************************************************)
EXTENDS RateLimiters, FiniteSets

CONSTANTS
  Requests,        \* the requests of the user that run at the same time
  Max,             \* successMaxCount
  Duration,        \* the period, here in ticks
  MaxTime          \* bound on the clock

VARIABLES
  redis,      \* common.RedisEnabled
  together,   \* requests overlap, with no tick between the commands of a check or
              \* a record; or they come one by one, at any pace
  now,        \* the clock
  list,       \* the list of successes in Redis, newest first
  ends,       \* when it expires
  check,      \* the queue of the check key in memory
  pc,         \* where each request is
  stamp,      \* the time each request is about to record
  successes,  \* history: when requests succeeded
  refused     \* history: the last step refused a request

vars == <<redis, together, now, list, ends, check, pc, stamp, successes, refused>>

Init ==
  /\ redis \in BOOLEAN /\ together \in BOOLEAN
  /\ now = 0
  /\ list = <<>> /\ ends = 0
  /\ check = <<>>
  /\ pc = [r \in Requests |-> "arrive"]
  /\ stamp = [r \in Requests |-> 0]
  /\ successes = <<>>
  /\ refused = FALSE

\* Between two commands of a check or of a record.
Between(r) == pc[r] \in {"oldest", "push", "trim", "expire"}

\* An expired list is gone at once.
Tick ==
  /\ now < MaxTime
  /\ together => \A r \in Requests : ~Between(r)
  /\ now' = now + 1
  /\ list' = IF now' >= ends THEN <<>> ELSE list
  /\ refused' = FALSE
  /\ UNCHANGED <<ends, check, pc, stamp, successes>>

Goto(r, label) == pc' = [pc EXCEPT ![r] = label]

Arrives(r) ==
  /\ pc[r] = "arrive"
  /\ together \/ \A other \in Requests : pc[other] = "arrive"

\* checkRedisRateLimit: the length.
CheckLength(r) ==
  /\ redis /\ Arrives(r)
  /\ Goto(r, IF Len(list) < Max THEN "run" ELSE "oldest")
  /\ refused' = FALSE
  /\ UNCHANGED <<now, list, ends, check, stamp, successes>>

\* Mutant: the newest entry decides.
WithinNewest == now - Head(list) < Duration

\* The oldest entry is within the period.
Within == now - list[Len(list)] < Duration

\* The oldest entry; without one the request ends with an error.  A refusal
\* renews the expiry.
CheckOldest(r) ==
  /\ redis /\ pc[r] = "oldest"
  /\ \/ /\ list = <<>>
        /\ Goto(r, "arrive")
        /\ refused' = FALSE
        /\ UNCHANGED ends
     \/ /\ list # <<>> /\ Within
        /\ Goto(r, "arrive")
        /\ refused' = TRUE
        /\ ends' = now + Duration
     \/ /\ list # <<>> /\ ~Within
        /\ Goto(r, "run")
        /\ refused' = FALSE
        /\ UNCHANGED ends
  /\ UNCHANGED <<now, list, check, stamp, successes>>

\* memoryRateLimitHandler: the check.
CheckMemory(r) ==
  LET call == Request(check, now, Max, Duration)
  IN /\ ~redis /\ Arrives(r)
     /\ check' = call.left
     /\ Goto(r, IF call.allowed THEN "run" ELSE "arrive")
     /\ refused' = ~call.allowed
     /\ UNCHANGED <<now, list, ends, stamp, successes>>

\* The request is handled.  What the memory handler records of a success is
\* never read.
Run(r) ==
  /\ pc[r] = "run"
  /\ refused' = FALSE
  /\ \/ /\ Goto(r, "arrive")
        /\ UNCHANGED <<stamp, successes>>
     \/ /\ Goto(r, IF redis THEN "push" ELSE "arrive")
        /\ stamp' = [stamp EXCEPT ![r] = now]
        /\ successes' = Append(successes, now)
  /\ UNCHANGED <<now, list, ends, check>>

\* recordRedisRequest.
Push(r) ==
  /\ pc[r] = "push"
  /\ list' = <<stamp[r]>> \o list
  /\ ends' = IF list = <<>> THEN MaxTime + 1 ELSE ends
  /\ Goto(r, "trim")
  /\ refused' = FALSE
  /\ UNCHANGED <<now, check, stamp, successes>>

Kept == Max

Trim(r) ==
  /\ pc[r] = "trim"
  /\ list' = SubSeq(list, 1, IF Len(list) < Kept THEN Len(list) ELSE Kept)
  /\ Goto(r, "expire")
  /\ refused' = FALSE
  /\ UNCHANGED <<now, ends, check, stamp, successes>>

Expire(r) ==
  /\ pc[r] = "expire"
  /\ ends' = IF list = <<>> THEN ends ELSE now + Duration
  /\ Goto(r, "arrive")
  /\ refused' = FALSE
  /\ UNCHANGED <<now, list, check, stamp, successes>>

Next ==
  /\ \/ Tick
     \/ \E r \in Requests :
          \/ CheckLength(r) \/ CheckOldest(r) \/ CheckMemory(r)
          \/ Run(r) \/ Push(r) \/ Trim(r) \/ Expire(r)
  /\ UNCHANGED <<redis, together>>

Spec == Init /\ [][Next]_vars

-----------------------------------------------------------------------------
\* The successes of the last period.
Recent == {i \in DOMAIN successes : successes[i] > now - Duration}

\* The check and the record are apart, so requests that run at the same time
\* may all pass the check: but never more of them than run at a time.  In memory
\* the check counts at its own time, and one more may be late.  (A list that
\* expires between the push and the renewal of its expiry loses more than that,
\* hence together.)
ExceededByConcurrency == together =>
  Cardinality(Recent) <= Max + Cardinality(Requests) - (IF redis THEN 1 ELSE 0)

\* With Redis a request is refused only when Max requests succeeded in the last
\* period: failures, refusals and the expiry of the list take nothing from the
\* user.  (In memory the check key counts the failures as well.)
RefusedMeansSucceeded == redis /\ refused => Cardinality(Recent) >= Max
=============================================================================
