------------------------- MODULE SubscriptionOrders -------------------------
(***************************************************************************)
(* How a user gets and loses subscriptions (model/subscription.go,         *)
(* controller/subscription_payment_*.go): orders paid at a gateway, bought *)
(* with the balance or bound by an administrator; the limit of purchases   *)
(* of a plan; the group of the user, raised by a subscription and lowered  *)
(* when it ends.  Subscription.tla models what is used of one.             *)
(*                                                                         *)
(* One user.  Everything a transaction reads after it has locked the       *)
(* user's row, but the status of subscriptions, only changes under that    *)
(* lock, so a transaction is one step from the lock on.  The steps that    *)
(* are kept apart are the reads made before the lock, and those of the     *)
(* subscriptions' status.                                                  *)
(***************************************************************************)
EXTENDS Integers, FiniteSets

CONSTANTS
    Orders,      \* orders at a gateway
    Buyers,      \* handlers of purchases with the balance
    Upgrade,     \* UpgradeGroup of a plan, "" for none
    Price,       \* price of a plan in quota
    BaseGroup,   \* the user's group at first
    MaxSubs,     \* bound of the ids of subscriptions
    Settings     \* the settings a behaviour may run with, records of the
                 \* fields below

VARIABLE terms   \* the one of this behaviour; it never changes

Made == terms.orders           \* those of Orders that are made
Buying == terms.buyers         \* those of Buyers that buy
Plans == terms.plans           \* plans for sale
Limit == terms.limit           \* MaxPurchasePerUser of a plan, 0 for none
Downgrade == terms.downgrade   \* DowngradeGroup of a plan, "" for the group
                                 \* held before
Term == terms.term             \* duration of a plan
InitQuota == terms.quota       \* the user's wallet at first
LastTime == terms.time         \* bound of the clock
FaultBudget == terms.faults    \* transactions that may fail
AdminOps == terms.admin        \* bound of the administrator's operations
Snapshots == terms.snapshots   \* TRUE where a transaction reads from one
                                 \* snapshot (REPEATABLE READ, the default of
                                 \* MySQL)

VARIABLES
    order,   \* subscription_orders
    paid,    \* the orders paid at the gateway
    subs,    \* user_subscriptions
    group,   \* the user's group
    quota,   \* the user's wallet
    now,     \* the clock
    buyer,   \* where each purchase with the balance is
    admin,   \* the administrator's invalidation or deletion
    job,     \* the expiration task
    budget,  \* faults and operations left
    hist     \* history: subscriptions made for an order

vars == <<terms, order, paid, subs, group, quota, now, buyer, admin, job,
          budget, hist>>

Ids == 1..MaxSubs

NoSub == [status |-> "none", plan |-> CHOOSE p \in Plans : TRUE, end |-> 0,
          prev |-> ""]

NoBuyer == [at |-> "idle", plan |-> NoSub.plan, count |-> 0]
NoAdmin == [at |-> "idle", sub |-> 0, target |-> ""]
NoJob == [at |-> "idle", now |-> 0, due |-> {}, last |-> 0]

Init ==
    /\ terms \in Settings
    /\ order = [o \in Orders |-> [status |-> "none", plan |-> NoSub.plan,
                                  link |-> FALSE]]
    /\ paid = {}
    /\ subs = [i \in Ids |-> NoSub]
    /\ group = BaseGroup
    /\ quota = InitQuota
    /\ now = 0
    /\ buyer = [b \in Buyers |-> NoBuyer]
    /\ admin = NoAdmin
    /\ job = NoJob
    /\ budget = [fault |-> FaultBudget, admin |-> AdminOps]
    /\ hist = [o \in Orders |-> 0]

Fault == budget.fault > 0 /\ budget' = [budget EXCEPT !.fault = @ - 1]

AdminOp == budget.admin > 0 /\ budget' = [budget EXCEPT !.admin = @ - 1]

\* The rows of user_subscriptions, of every status.
Rows == {i \in Ids : subs[i].status \notin {"none", "deleted"}}

CountByPlan(p) == Cardinality({i \in Rows : subs[i].plan = p})

\* status = active and end_time > t and upgrade_group <> ''.
ActiveUpgraded(t) ==
    {i \in Rows : /\ subs[i].status = "active"
                  /\ subs[i].end > t
                  /\ Upgrade[subs[i].plan] # ""}

NextId == 1 + Cardinality({i \in Ids : subs[i].status # "none"})

\* The end of a subscription of the plan leaves the group alone.
Ungrouped(p) == Upgrade[p] = "" /\ Downgrade[p] = ""

\* A bug this model can tell: nobody waits for the user's row.
UserFreeAlways == admin.at \in {"idle", "checked"}

\* The user's row is not locked by a transaction between two steps.
UserFree == admin.at = "checked" => Ungrouped(subs[admin.sub].plan)

-----------------------------------------------------------------------------
(* A subscription from a plan.                                             *)

\* A bug this model can tell: the limit is off by one.
BelowLimitOrAt(p, n) == Limit[p] = 0 \/ n <= Limit[p]

\* One more purchase of plan p is allowed after n.
BelowLimit(p, n) == Limit[p] = 0 \/ n < Limit[p]

\* CreateUserSubscriptionFromPlanTx after the count: the group is raised and
\* the group held before is kept in the row.
Create(p) ==
    LET up == Upgrade[p]
        raises == up # "" /\ group # up
    IN  /\ NextId \in Ids
        /\ subs' = [subs EXCEPT ![NextId] =
                      [status |-> "active", plan |-> p, end |-> now + Term[p],
                       prev |-> IF raises THEN group ELSE ""]]
        /\ group' = IF raises THEN up ELSE group

-----------------------------------------------------------------------------
(* Orders at a gateway.                                                    *)

\* SubscriptionRequestEpay, -StripePay, -CreemPay, -WaffoPancakePay.
RequestOrder(o, p) ==
    /\ o \in Made
    /\ order[o].status = "none"
    /\ BelowLimit(p, CountByPlan(p))
    /\ order' = [order EXCEPT ![o].status = "pending", ![o].plan = p]
    /\ UNCHANGED <<paid, subs, group, quota, now, buyer, admin, job, budget,
                   hist>>

\* The gateway answers with a link the user can pay at.
LinkCreated(o) ==
    /\ order[o].status = "pending"
    /\ ~order[o].link
    /\ order' = [order EXCEPT ![o].link = TRUE]
    /\ UNCHANGED <<paid, subs, group, quota, now, buyer, admin, job, budget,
                   hist>>

\* It does not: Epay's order is expired, Waffo Pancake's is failed.
LinkFailed(o) ==
    /\ order[o].status = "pending"
    /\ ~order[o].link
    /\ \E s \in {"expired", "failed"} :
          order' = [order EXCEPT ![o].status = s]
    /\ UNCHANGED <<paid, subs, group, quota, now, buyer, admin, job, budget,
                   hist>>

\* The user pays.
Pay(o) ==
    /\ order[o].status = "pending"
    /\ order[o].link
    /\ o \notin paid
    /\ paid' = paid \cup {o}
    /\ UNCHANGED <<order, subs, group, quota, now, buyer, admin, job, budget,
                   hist>>

\* The gateway gives up an order nobody paid: ExpireSubscriptionOrder.
ExpireSubscriptionOrder(o) ==
    /\ order[o].status = "pending"
    /\ order[o].link
    /\ o \notin paid
    /\ order' = [order EXCEPT ![o].status = "expired"]
    /\ UNCHANGED <<paid, subs, group, quota, now, buyer, admin, job, budget,
                   hist>>

\* A bug this model can tell: only orders of plans with a group are completed.
CompletableSome(o) ==
    order[o].status = "pending" /\ Upgrade[order[o].plan] # ""

\* The order under its row lock can be completed.
Completable(o) == order[o].status = "pending"

\* CompleteSubscriptionOrder, for a notice that comes any number of times.
CompleteSubscriptionOrder(o) ==
    /\ o \in paid
    /\ Completable(o)
    /\ UserFree
    /\ BelowLimit(order[o].plan, CountByPlan(order[o].plan))
    /\ Create(order[o].plan)
    /\ order' = [order EXCEPT ![o].status = "success"]
    /\ hist' = [hist EXCEPT ![o] = @ + 1]
    /\ UNCHANGED <<paid, quota, now, buyer, admin, job, budget>>

-----------------------------------------------------------------------------
(* Purchases with the balance, and the administrator's.                    *)

\* PurchaseSubscriptionWithBalance reads the plan.  When it is not cached, it
\* is read in the transaction: where a transaction has one snapshot, the
\* count below is that of this moment.
PurchaseReads(b, p) ==
    /\ b \in Buying
    /\ buyer[b].at = "idle"
    /\ \E cached \in BOOLEAN :
          buyer' = [buyer EXCEPT ![b] =
                      [at |-> IF Snapshots /\ ~cached THEN "snapshot" ELSE "read",
                       plan |-> p, count |-> CountByPlan(p)]]
    /\ UNCHANGED <<order, paid, subs, group, quota, now, admin, job, budget,
                   hist>>

Counted(b) == IF buyer[b].at = "snapshot" THEN buyer[b].count
              ELSE CountByPlan(buyer[b].plan)

\* The balance pays for the plan.
Affordable(p) == quota >= Price[p]

\* It locks the user, takes the price and makes the subscription; or there is
\* too little, or the limit is reached, or a statement fails.
PurchaseCommits(b) ==
    LET p == buyer[b].plan
        allowed == Affordable(p) /\ BelowLimit(p, Counted(b))
    IN  /\ buyer[b].at # "idle"
        /\ UserFree
        /\ \/ /\ allowed
              /\ Create(p)
              /\ quota' = quota - Price[p]
              /\ UNCHANGED budget
           \/ ~allowed /\ UNCHANGED <<subs, group, quota, budget>>
           \/ Fault /\ UNCHANGED <<subs, group, quota>>
        /\ buyer' = [buyer EXCEPT ![b] = NoBuyer]
        /\ UNCHANGED <<order, paid, now, admin, job, hist>>

AdminBindSubscription(p) ==
    /\ AdminOp
    /\ UserFree
    /\ BelowLimit(p, CountByPlan(p))
    /\ Create(p)
    /\ UNCHANGED <<order, paid, quota, now, buyer, admin, job, hist>>

\* downgradeUserGroupForSubscriptionTx: the group for the end of subscription
\* i, "" to keep the one held.
DowngradeTarget(i) ==
    LET p == subs[i].plan
        target == IF Downgrade[p] # "" THEN Downgrade[p]
                  ELSE IF group = Upgrade[p] THEN subs[i].prev ELSE ""
    IN  IF \/ Ungrouped(p)
           \/ ActiveUpgraded(now) \ {i} # {}
        THEN "" ELSE target

\* AdminInvalidateUserSubscription and AdminDeleteUserSubscription lock the
\* row, then the user's, and look for another active subscription.
AdminChecks(i) ==
    /\ admin = NoAdmin
    /\ AdminOp
    /\ i \in Rows
    /\ i \notin job.due
    /\ admin' = [at |-> "checked", sub |-> i, target |-> DowngradeTarget(i)]
    /\ UNCHANGED <<order, paid, subs, group, quota, now, buyer, job, hist>>

\* They commit the end of the row and the group.
AdminCommits ==
    /\ admin.at = "checked"
    /\ \/ /\ \E gone \in {[subs[admin.sub] EXCEPT !.status = "cancelled",
                                                  !.end = now],
                          [subs[admin.sub] EXCEPT !.status = "deleted"]} :
                subs' = [subs EXCEPT ![admin.sub] = gone]
          /\ group' = IF admin.target = "" THEN group ELSE admin.target
          /\ UNCHANGED budget
       \/ Fault /\ UNCHANGED <<subs, group>>
    /\ admin' = NoAdmin
    /\ UNCHANGED <<order, paid, quota, now, buyer, job, hist>>

-----------------------------------------------------------------------------
(* The expiration task.                                                    *)

Due(t) == {i \in Rows : subs[i].status = "active" /\ subs[i].end <= t}

\* ExpireDueSubscriptions finds something to do.
ExpireReads ==
    /\ job = NoJob
    /\ Due(now) # {}
    /\ job' = [NoJob EXCEPT !.at = "read", !.now = now]
    /\ UNCHANGED <<order, paid, subs, group, quota, now, buyer, admin, budget,
                   hist>>

\* The last row of S by end_time and id.
LastOf(S) ==
    CHOOSE i \in S : \A j \in S : \/ subs[j].end < subs[i].end
                                  \/ subs[j].end = subs[i].end /\ j <= i

\* Its transaction marks the rows and looks for the row whose groups count,
\* 0 when there is none or an upgraded subscription is active.
ExpireMarks ==
    LET due == Due(job.now)
        ended == {i \in Rows :
                    /\ subs[i].status = "expired" \/ i \in due
                    /\ ~Ungrouped(subs[i].plan)}
    IN  /\ job.at = "read"
        /\ admin.sub \notin due
        /\ job' = [job EXCEPT !.at = "marked", !.due = due,
                     !.last = IF ActiveUpgraded(job.now) # {} \/ ended = {}
                              THEN 0 ELSE LastOf(ended)]
        /\ UNCHANGED <<order, paid, subs, group, quota, now, buyer, admin,
                       budget, hist>>

\* The group the end of subscription i leads to, "" to keep the one held.
RevertTo(i) ==
    LET p == subs[i].plan
    IN  IF Downgrade[p] # "" THEN Downgrade[p]
        ELSE IF Upgrade[p] # "" /\ group = Upgrade[p] THEN subs[i].prev ELSE ""

\* It locks the user's row, sets the group and commits.
ExpireCommits ==
    /\ job.at = "marked"
    /\ job.last # 0 => UserFree
    /\ \/ /\ subs' = [i \in Ids |->
                        IF i \in job.due THEN [subs[i] EXCEPT !.status = "expired"]
                        ELSE subs[i]]
          /\ group' = IF job.last = 0 THEN group
                      ELSE IF RevertTo(job.last) = "" THEN group
                      ELSE RevertTo(job.last)
          /\ UNCHANGED budget
       \/ Fault /\ UNCHANGED <<subs, group>>
    /\ job' = NoJob
    /\ UNCHANGED <<order, paid, quota, now, buyer, admin, hist>>

Tick ==
    /\ now < LastTime
    /\ now' = now + 1
    /\ UNCHANGED <<order, paid, subs, group, quota, buyer, admin, job, budget,
                   hist>>

-----------------------------------------------------------------------------
Gateway(o) ==
    \/ \E p \in Plans : RequestOrder(o, p)
    \/ LinkCreated(o)
    \/ LinkFailed(o)
    \/ Pay(o)
    \/ ExpireSubscriptionOrder(o)
    \/ CompleteSubscriptionOrder(o)

Next ==
    /\ \/ \E o \in Orders : Gateway(o)
       \/ \E b \in Buyers : \/ \E p \in Plans : PurchaseReads(b, p)
                            \/ PurchaseCommits(b)
       \/ \E p \in Plans : AdminBindSubscription(p)
       \/ \E i \in Ids : AdminChecks(i)
       \/ AdminCommits
       \/ ExpireReads
       \/ ExpireMarks
       \/ ExpireCommits
       \/ Tick
    /\ UNCHANGED terms

\* The gateway repeats a notice that was not acknowledged; transactions come
\* to an end.
Fairness ==
    /\ WF_vars(UNCHANGED terms /\ \E o \in Orders : CompleteSubscriptionOrder(o))
    /\ WF_vars(UNCHANGED terms /\ AdminCommits)

Spec == Init /\ [][Next]_vars /\ Fairness

-----------------------------------------------------------------------------
\* An order made one subscription if it is completed and none otherwise,
\* however often its notice comes (CompleteSubscriptionOrder is idempotent).
FulfilledOnce ==
    \A o \in Orders : hist[o] = IF order[o].status = "success" THEN 1 ELSE 0

\* Where a transaction sees what was committed before it got its lock, a user
\* never holds more subscriptions of a plan than the plan allows, whichever
\* way they were bought (MaxPurchasePerUser), nor pays more than the wallet
\* holds.
WithinPurchaseLimit ==
    /\ quota >= 0
    /\ ~Snapshots => \A p \in Plans : Limit[p] > 0 => CountByPlan(p) <= Limit[p]

\* As long as an upgraded subscription is active, the user is in a group that
\* a subscription gave (downgradeUserGroupForSubscriptionTx: "keep the current
\* group"), if it is the administrator who ends them: ExpireDueSubscriptions
\* looks before it locks.
UpgradeKept ==
    (\A p \in Plans : Term[p] > LastTime) /\ ActiveUpgraded(now) # {}
    => group \in {Upgrade[p] : p \in Plans} \ {""}

\* Once time has ended every subscription and the task has run, the user is in
\* the group the plans say (DowngradeGroup), if all of them say so.
GroupReverted ==
    (/\ AdminOps = 0
     /\ \A p \in Plans : Ungrouped(p) \/ Downgrade[p] = BaseGroup
     /\ \A i \in Rows : subs[i].status # "active"
     /\ job = NoJob)
    => group = BaseGroup

\* A paid order is fulfilled in the end, unless the limit of its plan, or the
\* bound of the ids, is reached (the gateway repeats the notice).
PaidIsFulfilled ==
    \A o \in Orders :
        o \in paid ~> \/ order[o].status = "success"
                      \/ ~BelowLimit(order[o].plan, CountByPlan(order[o].plan))
                      \/ NextId \notin Ids
=============================================================================
