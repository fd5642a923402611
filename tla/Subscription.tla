---------------------------- MODULE Subscription ----------------------------
(***************************************************************************)
(* The usage of one user's subscriptions: model/subscription.go, the       *)
(* retried refund of service/funding_source.go and the maintenance pass of *)
(* service/subscription_reset_task.go.                                     *)
(*                                                                         *)
(* A request pre-consumes an amount on the subscription that ends first,   *)
(* under a record that should make its refund idempotent; usage goes back  *)
(* to 0 at every reset, which a pre-consumption makes itself when it comes *)
(* first, and the maintenance pass of the master node otherwise.  A step   *)
(* is one database transaction, except for a refund: the usage is changed  *)
(* in a transaction of its own, opened inside the one that marks the       *)
(* record.  Operations read the clock before their transaction begins and  *)
(* may be Lag ticks late.                                                  *)
(***************************************************************************)
EXTENDS Integers, FiniteSets

CONSTANTS
    Requests,     \* requests billed to subscriptions
    Subs,         \* ids of user_subscriptions rows, in order of creation
    Amounts,      \* amounts pre-consumed, reserved and adjusted by
    MaxAttempts,  \* maxAttempts of refundWithRetry
    Settings      \* the settings a behaviour may run with, records of the
                  \* fields below

\* A period is aligned to the calendar (daily, weekly, monthly) or counted
\* from the last reset (custom); never is a length of 0.
PeriodType == [aligned : BOOLEAN, len : Nat]

ASSUME SettingsAssumption ==
    /\ Subs \subseteq Nat /\ IsFiniteSet(Subs)
    /\ Amounts \subseteq Nat \ {0}
    /\ \A s \in Settings :
          /\ s.total \in Nat /\ s.duration \in Nat /\ s.periods \subseteq PeriodType
          /\ s.updates \in Nat /\ s.resets \in Nat /\ s.advance \in BOOLEAN
          /\ s.lag \in Nat /\ s.time \in Nat /\ s.batch \in Nat
          /\ s.faults \in Nat /\ s.acks \in Nat /\ s.marks \in Nat

VARIABLE setting  \* the one of this behaviour; it never changes

Sent == setting.requests           \* those of Requests that are made
Sold == setting.subs               \* those of Subs that are created
Total == setting.total             \* amount_total of the plan, 0: unlimited
Duration == setting.duration       \* ticks a subscription lasts
Periods == setting.periods         \* reset periods the plan may have
PlanUpdates == setting.updates     \* changes of the period
AdminResets == setting.resets      \* resets by an administrator
MayAdvance == setting.advance      \* whether these may move the schedule
Lag == setting.lag                 \* ticks from the clock to the transaction
MaxTime == setting.time            \* bound of the clock
BatchSize == setting.batch         \* subscriptionResetBatchSize
FaultBudget == setting.faults      \* transactions that fail, changing nothing
LostAcks == setting.acks           \* marks stored and reported as failed
MarkFaults == setting.marks        \* marks that fail after the usage changed

VARIABLES
    now,       \* the database clock
    period,    \* the plan's quota_reset_period
    subs,      \* user_subscriptions
    rec,       \* subscription_pre_consume_records
    pc,        \* where each request is
    extra,     \* extraReserved of each request's session
    attempt,   \* attempts of its refund begun
    pass,      \* the maintenance pass
    budget,    \* faults and administrator's actions left
    hist,      \* history: what was taken and given back, see below
    given      \* history: what refunds of its record gave a request back

vars == <<setting, now, period, subs, rec, pc, extra, attempt, pass, budget,
          hist, given>>

NoSub == [status |-> "none", used |-> 0, start |-> 0, end |-> 0,
          last |-> 0, next |-> 0]

SubType == [status : {"none", "active", "expired", "cancelled", "deleted"},
            used : Nat, start : Nat, end : Nat, last : Nat, next : Nat]

NoRec == [status |-> "none", sub |-> 0, amount |-> 0]

RecType == [status : {"none", "consumed", "refunded"}, sub : Nat,
            amount : Nat]

Labels == {"idle", "holding", "refund", "mark", "extra", "done"}

PassType == [at : {"idle", "expire", "list", "rows"}, t : Nat,
             rows : SUBSET Subs, count : Nat]

Init ==
    /\ setting \in Settings
    /\ now = 1
    /\ period \in Periods
    /\ subs = [s \in Subs |-> NoSub]
    /\ rec = [r \in Requests |-> NoRec]
    /\ pc = [r \in Requests |-> "idle"]
    /\ extra = [r \in Requests |-> 0]
    /\ attempt = [r \in Requests |-> 0]
    /\ pass = [at |-> "idle", t |-> 0, rows |-> {}, count |-> 0]
    /\ budget = [fault |-> FaultBudget, ack |-> LostAcks, mark |-> MarkFaults,
                 plan |-> PlanUpdates, reset |-> AdminResets]
    /\ given = [r \in Requests |-> 0]
    /\ hist = [current |-> [r \in Requests |-> 0],
               charged |-> [s \in Subs |-> 0],
               carried |-> [s \in Subs |-> 0],
               resets |-> [s \in Subs |-> 0]]

-----------------------------------------------------------------------------
(* Reset times.                                                            *)

\* calcNextResetTime: the first reset after base, 0 when there is none
\* before the subscription ends.
CalcNextResetTime(base, end) ==
    LET n == IF period.aligned THEN (base \div period.len + 1) * period.len
                               ELSE base + period.len
    IN  IF period.len = 0 \/ n > end THEN 0 ELSE n

\* The resets after base that are due at t, which the loop of
\* maybeResetUserSubscriptionWithPlanTx walks through.
DueResets(base, end, t) ==
    {b \in (base + 1)..t : /\ period.len > 0
                           /\ b <= end
                           /\ IF period.aligned THEN b % period.len = 0
                              ELSE (b - base) % period.len = 0}

\* The resets of a row that are due at t; its next_reset_time, when it has
\* one, is looked at first.
Due(u, t) ==
    IF u.next > 0 /\ u.next > t THEN {}
    ELSE DueResets(IF u.last <= 0 THEN u.start ELSE u.last, u.end, t)

Resets(u, t) == Due(u, t) # {}

\* A new period that began at base.
NewPeriod(u, base) ==
    [u EXCEPT !.used = 0, !.last = base,
              !.next = CalcNextResetTime(base, u.end)]

\* maybeResetUserSubscriptionWithPlanTx at time t; a row without a next reset
\* that should have one only gets its schedule.
MaybeReset(u, t) ==
    LET base == IF u.last <= 0 THEN u.start ELSE u.last
        next == CalcNextResetTime(base, u.end)
    IN  IF Resets(u, t)
        THEN NewPeriod(u, CHOOSE b \in Due(u, t) : \A c \in Due(u, t) : c <= b)
        ELSE IF u.next = 0 /\ next > 0
        THEN [u EXCEPT !.next = next, !.last = base]
        ELSE u

\* The clock an operation works with.
ReadClock(t) == t \in 1..now /\ t + Lag >= now

Active(s, t) == subs[s].status = "active" /\ subs[s].end > t

\* Order("end_time asc, id asc").
Before(s, u) == \/ subs[s].end < subs[u].end
                \/ subs[s].end = subs[u].end /\ s < u

-----------------------------------------------------------------------------
(* History: current[r] is what request r took on its subscription in the   *)
(* current period, charged[s] the sum of it over the requests of s, and    *)
(* carried[s] what refunds gave back in this period of what was taken in   *)
(* earlier ones.                                                           *)

\* A new period begins for the subscriptions of S.
ForgetPeriod(h, S) ==
    [h EXCEPT !.current = [r \in Requests |->
                             IF rec[r].sub \in S THEN 0 ELSE @[r]],
              !.charged = [s \in Subs |-> IF s \in S THEN 0 ELSE @[s]],
              !.carried = [s \in Subs |-> IF s \in S THEN 0 ELSE @[s]],
              !.resets = [s \in Subs |-> IF s \in S THEN @[s] + 1 ELSE @[s]]]

Took(h, r, s, n) == [h EXCEPT !.current[r] = @ + n, !.charged[s] = @ + n]

\* Request r gives n back; what this period did not take is carried over.
Gave(h, r, s, n) ==
    LET mine == IF n <= h.current[r] THEN n ELSE h.current[r]
    IN  [h EXCEPT !.current[r] = @ - mine, !.charged[s] = @ - mine,
                  !.carried[s] = @ + (n - mine)]

-----------------------------------------------------------------------------
(* Purchases and administration.                                           *)

\* CreateUserSubscriptionFromPlanTx, as far as usage is concerned.
Create(s, t) ==
    /\ s \in Sold
    /\ subs[s].status = "none"
    /\ \A u \in Subs : u < s => subs[u].status # "none"
    /\ ReadClock(t)
    /\ LET next == CalcNextResetTime(t, t + Duration)
       IN  subs' = [subs EXCEPT ![s] =
                      [status |-> "active", used |-> 0, start |-> t,
                       end |-> t + Duration,
                       last |-> IF next > 0 THEN t ELSE 0, next |-> next]]
    /\ UNCHANGED <<now, period, rec, pc, extra, attempt, pass, budget,
                   hist, given>>

\* AdminInvalidateUserSubscription.
AdminInvalidate(s, t) ==
    /\ subs[s].status \notin {"none", "deleted"}
    /\ ReadClock(t)
    /\ subs' = [subs EXCEPT ![s].status = "cancelled", ![s].end = t]
    /\ UNCHANGED <<now, period, rec, pc, extra, attempt, pass, budget,
                   hist, given>>

\* AdminDeleteUserSubscription.
AdminDelete(s) ==
    /\ subs[s].status \notin {"none", "deleted"}
    /\ subs' = [subs EXCEPT ![s].status = "deleted"]
    /\ UNCHANGED <<now, period, rec, pc, extra, attempt, pass, budget,
                   hist, given>>

\* resetUserSubscriptionTx for one row.
AdminResetRow(u, t, advance) ==
    LET next == CalcNextResetTime(t, u.end)
    IN  IF advance
        THEN [u EXCEPT !.used = 0, !.next = next,
                       !.last = IF next > 0 THEN t ELSE 0]
        ELSE [u EXCEPT !.used = 0]

\* AdminResetUserSubscriptionsByPlan and AdminResetPlanSubscriptions.
AdminReset(t, advance) ==
    /\ budget.reset > 0
    /\ ReadClock(t)
    /\ advance => MayAdvance
    /\ LET S == {s \in Subs : Active(s, t)}
       IN  /\ S # {}
           /\ subs' = [s \in Subs |-> IF s \in S
                                      THEN AdminResetRow(subs[s], t, advance)
                                      ELSE subs[s]]
           /\ hist' = [ForgetPeriod(hist, S) EXCEPT !.resets = hist.resets]
    /\ budget' = [budget EXCEPT !.reset = @ - 1]
    /\ UNCHANGED <<now, period, rec, pc, extra, attempt, pass, given>>

\* AdminUpdateSubscriptionPlan: rows keep the schedule they have.
UpdatePlan ==
    /\ budget.plan > 0
    /\ period' \in Periods \ {period}
    /\ budget' = [budget EXCEPT !.plan = @ - 1]
    /\ UNCHANGED <<now, subs, rec, pc, extra, attempt, pass, hist, given>>

-----------------------------------------------------------------------------
(* Requests.                                                               *)

\* There is room for n more on a row; a total of 0 is no limit.
Fits(u, n) == Total = 0 \/ Total - u.used >= n

\* PreConsumeUserSubscription: the subscription that ends first and has room
\* is charged; those before it are reset on the way if they are due.  When
\* none has room the transaction, resets included, is rolled back.
PreConsume(r, t, n) ==
    /\ r \in Sent
    /\ pc[r] = "idle"
    /\ ReadClock(t)
    /\ LET live == {s \in Subs : Active(s, t)}
           new(s) == MaybeReset(subs[s], t)
           fit == {s \in live : Fits(new(s), n)}
       IN  \/ /\ fit = {}
              /\ pc' = [pc EXCEPT ![r] = "done"]
              /\ UNCHANGED <<subs, rec, hist>>
           \/ \E s \in fit :
                LET seen == {u \in live : Before(u, s)} \cup {s}
                    reset == {u \in seen : Resets(subs[u], t)}
                IN  /\ \A u \in fit : u = s \/ Before(s, u)
                    /\ subs' = [u \in Subs |->
                                  IF u = s
                                  THEN [new(u) EXCEPT !.used = @ + n]
                                  ELSE IF u \in seen THEN new(u)
                                  ELSE subs[u]]
                    /\ rec' = [rec EXCEPT ![r] = [status |-> "consumed",
                                                  sub |-> s, amount |-> n]]
                    /\ hist' = Took(ForgetPeriod(hist, reset), r, s, n)
                    /\ pc' = [pc EXCEPT ![r] = "holding"]
    /\ UNCHANGED <<now, period, extra, attempt, pass, budget, given>>

\* The usage after PostConsumeUserSubscriptionDelta(d): never below 0.
NewUsed(used, d) == IF used + d < 0 THEN 0 ELSE used + d

\* A bug this model can tell: the total is not looked at.
DeltaAcceptedAlways(s, d) == subs[s].status # "deleted"

\* PostConsumeUserSubscriptionDelta refuses when the row is gone or would go
\* over its total.
DeltaAccepted(s, d) ==
    /\ subs[s].status # "deleted"
    /\ Total = 0 \/ NewUsed(subs[s].used, d) <= Total

\* PostConsumeUserSubscriptionDelta(d), accepted, for request r.
ApplyDelta(r, d) ==
    LET s == rec[r].sub
    IN  /\ subs' = [subs EXCEPT ![s].used = NewUsed(@, d)]
        /\ hist' = IF d > 0 THEN Took(hist, r, s, d) ELSE Gave(hist, r, s, 0 - d)

NoFault == UNCHANGED budget

\* A transaction fails and changes nothing.
Fault == budget.fault > 0 /\ budget' = [budget EXCEPT !.fault = @ - 1]

\* BillingSession.Reserve raises what the session holds.
Reserve(r, n) ==
    /\ pc[r] = "holding"
    /\ extra[r] = 0
    /\ DeltaAccepted(rec[r].sub, n)
    /\ ApplyDelta(r, n)
    /\ extra' = [extra EXCEPT ![r] = n]
    /\ UNCHANGED <<now, period, rec, pc, attempt, pass, budget, given>>

\* SubscriptionFunding.Settle(d); an error is logged and the request ends.
Settle(r, d) ==
    /\ pc[r] = "holding"
    /\ d >= 0 - (rec[r].amount + extra[r])
    /\ IF d # 0 /\ DeltaAccepted(rec[r].sub, d)
       THEN ApplyDelta(r, d)
       ELSE UNCHANGED <<subs, hist>>
    /\ pc' = [pc EXCEPT ![r] = "done"]
    /\ UNCHANGED <<now, period, rec, extra, attempt, pass, budget, given>>

\* BillingSession.Refund starts the refund in a goroutine.
BeginRefund(r) ==
    /\ pc[r] = "holding"
    /\ pc' = [pc EXCEPT ![r] = "refund"]
    /\ attempt' = [attempt EXCEPT ![r] = 1]
    /\ UNCHANGED <<now, period, subs, rec, extra, pass, budget, hist, given>>

\* refundWithRetry after a failed attempt; the last one is given up.
Retry(r) ==
    IF attempt[r] < MaxAttempts
    THEN /\ attempt' = [attempt EXCEPT ![r] = @ + 1]
         /\ pc' = [pc EXCEPT ![r] = "refund"]
    ELSE /\ pc' = [pc EXCEPT ![r] = "extra"]
         /\ UNCHANGED attempt

\* A bug this model can tell: the status of the record is not looked at.
RefundableAlways(r) == rec[r].status # "none"

\* The record of a request is still to be refunded.
Refundable(r) == rec[r].status = "consumed"

\* RefundSubscriptionPreConsume up to the inner transaction.
RefundDelta(r) ==
    /\ pc[r] = "refund"
    /\ \/ /\ ~Refundable(r)
          /\ IF rec[r].status = "none" THEN Retry(r)
             ELSE pc' = [pc EXCEPT ![r] = "extra"] /\ UNCHANGED attempt
          /\ UNCHANGED <<subs, hist, given, budget>>
       \/ /\ Refundable(r)
          /\ DeltaAccepted(rec[r].sub, 0 - rec[r].amount)
          /\ ApplyDelta(r, 0 - rec[r].amount)
          /\ given' = [given EXCEPT ![r] = @ + rec[r].amount]
          /\ pc' = [pc EXCEPT ![r] = "mark"]
          /\ UNCHANGED <<attempt, budget>>
       \/ /\ Refundable(r)
          /\ \/ ~DeltaAccepted(rec[r].sub, 0 - rec[r].amount) /\ NoFault
             \/ Fault
          /\ Retry(r)
          /\ UNCHANGED <<subs, hist, given>>
    /\ UNCHANGED <<now, period, rec, extra, pass>>

\* The outer transaction marks the record: stored, stored but reported as
\* failed, or failed and rolled back, which leaves the usage changed.
RefundMark(r) ==
    /\ pc[r] = "mark"
    /\ \/ /\ rec' = [rec EXCEPT ![r].status = "refunded"]
          /\ pc' = [pc EXCEPT ![r] = "extra"]
          /\ UNCHANGED <<attempt, budget>>
       \/ /\ budget.ack > 0
          /\ budget' = [budget EXCEPT !.ack = @ - 1]
          /\ rec' = [rec EXCEPT ![r].status = "refunded"]
          /\ Retry(r)
       \/ /\ budget.mark > 0
          /\ budget' = [budget EXCEPT !.mark = @ - 1]
          /\ Retry(r)
          /\ UNCHANGED rec
    /\ UNCHANGED <<now, period, subs, extra, pass, hist, given>>

\* What was reserved on top is given back with a delta of its own.
RefundExtra(r) ==
    /\ pc[r] = "extra"
    /\ \/ /\ extra[r] > 0
          /\ DeltaAccepted(rec[r].sub, 0 - extra[r])
          /\ ApplyDelta(r, 0 - extra[r])
          /\ NoFault
       \/ /\ extra[r] = 0 \/ ~DeltaAccepted(rec[r].sub, 0 - extra[r])
          /\ UNCHANGED <<subs, hist, budget>>
       \/ /\ extra[r] > 0 /\ Fault
          /\ UNCHANGED <<subs, hist>>
    /\ pc' = [pc EXCEPT ![r] = "done"]
    /\ UNCHANGED <<now, period, rec, extra, attempt, pass, given>>

\* The node dies with the request: what it holds stays charged.
Crash(r) ==
    /\ pc[r] \in {"holding", "refund", "mark", "extra"}
    /\ Fault
    /\ pc' = [pc EXCEPT ![r] = "done"]
    /\ UNCHANGED <<now, period, subs, rec, extra, attempt, pass, hist,
                   given>>

-----------------------------------------------------------------------------
(* runSubscriptionQuotaResetOnce on the master node.                       *)

BeginPass ==
    /\ pass.at = "idle"
    /\ pass' = [at |-> "expire", t |-> 0, rows |-> {}, count |-> 0]
    /\ UNCHANGED <<now, period, subs, rec, pc, extra, attempt, budget,
                   hist, given>>

\* The rows that ExpireDueSubscriptions looks for.
Ended(t) ==
    {s \in Subs : subs[s].status = "active" /\ subs[s].end <= t}

\* ExpireDueSubscriptions; called again after a full batch.
ExpireDue(t) ==
    /\ pass.at = "expire"
    /\ ReadClock(t)
    /\ subs' = [s \in Subs |-> IF s \in Ended(t)
                               THEN [subs[s] EXCEPT !.status = "expired"]
                               ELSE subs[s]]
    /\ pass' = IF Cardinality(Ended(t)) < BatchSize
               THEN [pass EXCEPT !.at = "list"] ELSE pass
    /\ UNCHANGED <<now, period, rec, pc, extra, attempt, budget, hist,
                   given>>

\* ResetDueSubscriptions reads a batch of the rows that are due.
ListDue(t) ==
    /\ pass.at = "list"
    /\ ReadClock(t)
    /\ LET due == {s \in Subs : /\ subs[s].status = "active"
                                /\ subs[s].next > 0
                                /\ subs[s].next <= t}
       IN  IF due = {}
           THEN pass' = [pass EXCEPT !.at = "idle", !.t = 0]
           ELSE \E rows \in SUBSET due :
                  /\ Cardinality(rows) = IF Cardinality(due) < BatchSize
                                         THEN Cardinality(due) ELSE BatchSize
                  /\ \A s \in rows, u \in due \ rows :
                        subs[s].next <= subs[u].next
                  /\ pass' = [at |-> "rows", t |-> t, rows |-> rows,
                              count |-> 0]
    /\ UNCHANGED <<now, period, subs, rec, pc, extra, attempt, budget,
                   hist, given>>

\* One row of the batch, in a transaction that checks again that it is due
\* and counts it whether or not it was reset.
ResetRow(s) ==
    /\ pass.at = "rows"
    /\ s \in pass.rows
    /\ IF /\ subs[s].status # "deleted"
          /\ subs[s].next > 0
          /\ subs[s].next <= pass.t
       THEN /\ subs' = [subs EXCEPT ![s] = MaybeReset(subs[s], pass.t)]
            /\ hist' = IF Resets(subs[s], pass.t)
                       THEN ForgetPeriod(hist, {s}) ELSE hist
            /\ pass' = [pass EXCEPT !.rows = @ \ {s}, !.count = @ + 1]
       ELSE /\ pass' = [pass EXCEPT !.rows = @ \ {s}]
            /\ UNCHANGED <<subs, hist>>
    /\ UNCHANGED <<now, period, rec, pc, extra, attempt, budget, given>>

\* The batch is done; after a full one there is another.
EndBatch ==
    /\ pass.at = "rows"
    /\ pass.rows = {}
    /\ pass' = [at |-> IF pass.count < BatchSize THEN "idle" ELSE "list",
                t |-> 0, rows |-> {}, count |-> 0]
    /\ UNCHANGED <<now, period, subs, rec, pc, extra, attempt, budget,
                   hist, given>>

\* A transaction of the pass fails: the pass is over until the next tick.
PassFails ==
    /\ pass.at # "idle"
    /\ Fault
    /\ pass' = [at |-> "idle", t |-> 0, rows |-> {}, count |-> 0]
    /\ UNCHANGED <<now, period, subs, rec, pc, extra, attempt, hist, given>>

\* CleanupSubscriptionPreConsumeRecords: a week after its last update no
\* request uses a record.
Cleanup(r) ==
    /\ pc[r] = "done"
    /\ rec[r].status # "none"
    /\ rec' = [rec EXCEPT ![r].status = "none"]
    /\ UNCHANGED <<now, period, subs, pc, extra, attempt, pass, budget,
                   hist, given>>

Tick ==
    /\ now < MaxTime
    /\ now' = now + 1
    /\ UNCHANGED <<period, subs, rec, pc, extra, attempt, pass, budget,
                   hist, given>>

-----------------------------------------------------------------------------
Deltas == Amounts \cup {0 - n : n \in Amounts} \cup {0}

Refund(r) == RefundDelta(r) \/ RefundMark(r) \/ RefundExtra(r)

Request(r) ==
    \/ \E t \in 1..now, n \in Amounts : PreConsume(r, t, n)
    \/ \E n \in Amounts : Reserve(r, n)
    \/ \E d \in Deltas : Settle(r, d)
    \/ BeginRefund(r)
    \/ Crash(r)
    \/ Cleanup(r)

Maintenance ==
    \/ BeginPass
    \/ \E t \in 1..now : ExpireDue(t) \/ ListDue(t)
    \/ \E s \in Subs : ResetRow(s)
    \/ EndBatch

Admin ==
    \/ \E s \in Subs, t \in 1..now : Create(s, t) \/ AdminInvalidate(s, t)
    \/ \E s \in Subs : AdminDelete(s)
    \/ \E t \in 1..now, advance \in BOOLEAN : AdminReset(t, advance)
    \/ UpdatePlan

Next ==
    /\ \/ \E r \in Requests : Request(r) \/ Refund(r)
       \/ Maintenance
       \/ Admin
       \/ PassFails
       \/ Tick
    /\ UNCHANGED setting

\* The master node's ticker keeps starting passes, and a pass keeps running.
Fairness == WF_vars(Maintenance /\ UNCHANGED setting)

Spec == Init /\ [][Next]_vars /\ Fairness

-----------------------------------------------------------------------------
\* In one reset period requests take no more from a subscription than its
\* plan allows, however resets, settlements and refunds of two periods
\* interleave; the one way around it is a refund of what an earlier period
\* took, which PostConsumeUserSubscriptionDelta books on the current one.
PeriodWithinPlan ==
    Total > 0 => \A s \in Subs : hist.charged[s] <= Total + hist.carried[s]

\* RefundSubscriptionPreConsume gives a request back what it pre-consumed at
\* most once, however often refundWithRetry calls it; only a mark that failed
\* after the usage was changed lets it be given back once more.
RefundedOnce ==
    \A r \in Requests :
        given[r] <= rec[r].amount * (1 + MarkFaults - budget.mark)

\* The number of period boundaries of a row that have passed.
Boundaries(u) ==
    IF u.status = "none" \/ period.len = 0 THEN 0
    ELSE IF period.aligned THEN now \div period.len - u.start \div period.len
    ELSE (now - u.start) \div period.len

\* As long as administrators leave the schedule alone, the usage is reset at
\* most once per period, though a pre-consumption and the maintenance pass
\* may both find the same reset due and work with a clock that is behind.
OneResetPerPeriod ==
    PlanUpdates = 0 /\ (AdminResets > 0 => ~MayAdvance)
    => \A s \in Subs : hist.resets[s] <= Boundaries(subs[s])

\* Where a plan keeps its period, the pass gets to every subscription:
\* ResetDueSubscriptions to one that is due, which is reset or ends, and
\* ExpireDueSubscriptions to one that has ended.
PassCatchesUp ==
    \A s \in Subs :
        /\ (/\ PlanUpdates = 0 /\ Lag = 0
            /\ subs[s].status = "active"
            /\ subs[s].next > 0 /\ subs[s].next <= now)
           ~> (subs[s].status # "active" \/ subs[s].next = 0
                                         \/ subs[s].next > now)
        /\ (/\ PlanUpdates = 0 /\ Lag = 0
            /\ subs[s].status = "active" /\ subs[s].end <= now)
           ~> subs[s].status # "active"
=============================================================================
