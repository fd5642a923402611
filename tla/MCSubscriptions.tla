--------------------------- MODULE MCSubscriptions ---------------------------
(***************************************************************************)
(* What is used of subscriptions, and how they are got and lost.  A        *)
(* behaviour is one of Subscription or one of SubscriptionOrders, each     *)
(* with one of the settings below: the other stands still in an initial    *)
(* state.                                                                  *)
(***************************************************************************)
EXTENDS Subscription

CONSTANTS
    r1, r2, o1, o2, b1, b2,
    Orders, Buyers, Upgrade, Price, BaseGroup, MaxSubs, OrderSettings
                             \* of SubscriptionOrders, OrderSettings its
                             \* Settings

ASSUME OrdersAssumption ==
    /\ MaxSubs \in Nat
    /\ BaseGroup # ""
    /\ \A s \in OrderSettings :
          /\ s.plans # {}
          /\ \A p \in s.plans : /\ Price[p] \in Nat
                                /\ s.limit[p] \in Nat
                                /\ s.term[p] \in Nat
          /\ s.quota \in Nat /\ s.time \in Nat /\ s.faults \in Nat
          /\ s.admin \in Nat /\ s.snapshots \in BOOLEAN

VARIABLES part, terms, order, paid, held, group, quota, clock, buyer,
          admin, job, left, made

orderVars == <<terms, order, paid, held, group, quota, clock, buyer, admin,
               job, left, made>>

Custom1 == [aligned |-> FALSE, len |-> 1]
Custom2 == [aligned |-> FALSE, len |-> 2]
Aligned2 == [aligned |-> TRUE, len |-> 2]
Never == [aligned |-> FALSE, len |-> 0]

\* Two requests on one subscription across a reset.
Requesting ==
    [requests |-> {r1, r2}, subs |-> {1}, total |-> 2, duration |-> 2,
     periods |-> {Custom1}, updates |-> 0, resets |-> 0, advance |-> FALSE,
     lag |-> 0, time |-> 2, batch |-> 2, faults |-> 0, acks |-> 0, marks |-> 0]

\* One request, with failing transactions, a crash, a mark that fails and one
\* whose acknowledgement is lost.
Failing ==
    [Requesting EXCEPT !.requests = {r1}, !.faults = 2, !.acks = 1,
                       !.marks = 1]

\* An administrator resets the subscription, moves its schedule and changes
\* the period of the plan.
Administered ==
    [Requesting EXCEPT !.duration = 4, !.time = 3, !.periods = {Custom2, Never},
                       !.updates = 1, !.resets = 1, !.advance = TRUE,
                       !.requests = {r1}]

\* Several resets and the end, with every kind of period and a clock that
\* is behind.
Scheduled ==
    [Requesting EXCEPT !.requests = {r1}, !.total = 1, !.duration = 4,
                       !.periods = {Custom2, Aligned2, Never},
                       !.lag = 1, !.time = 5, !.batch = 1]

\* Two subscriptions and batches of one.
TwoRows ==
    [Requesting EXCEPT !.requests = {}, !.subs = {1, 2}, !.time = 4,
                       !.duration = 3, !.batch = 1, !.faults = 1]

UsageSettings == {Requesting, Failing, Administered, Scheduled, TwoRows}

-----------------------------------------------------------------------------
All(plans, x) == [p \in plans |-> x]

\* Two orders, a purchase with the balance and an administrator compete for
\* plans that may be bought once.
Competing ==
    [orders |-> {o1, o2}, buyers |-> {b1}, plans |-> {"silver", "extra"},
     limit |-> All({"silver", "extra"}, 1),
     downgrade |-> [silver |-> "default", extra |-> ""],
     term |-> All({"silver", "extra"}, 1), quota |-> 1, time |-> 1,
     faults |-> 0, admin |-> 1, snapshots |-> FALSE]

\* Two purchases with the balance, which pays for one.
Buyers2 ==
    [Competing EXCEPT !.orders = {o1}, !.buyers = {b1, b2}, !.quota = 1,
                      !.faults = 1, !.admin = 0]

\* Two plans with groups; nobody but time ends a subscription.  On MySQL.
Ending ==
    [orders |-> {}, buyers |-> {b1}, plans |-> {"silver", "gold"},
     limit |-> All({"silver", "gold"}, 0),
     downgrade |-> All({"silver", "gold"}, "default"),
     term |-> All({"silver", "gold"}, 1), quota |-> 3, time |-> 3,
     faults |-> 1, admin |-> 0, snapshots |-> TRUE]

\* An administrator ends subscriptions while others are bought.
EndedByAdmin ==
    [Ending EXCEPT !.orders = {o1}, !.downgrade = All({"silver", "gold"}, ""),
                   !.term = All({"silver", "gold"}, 2), !.quota = 1,
                   !.time = 1, !.faults = 0, !.admin = 2, !.snapshots = FALSE]

BuyingSettings == {Competing, Buyers2, Ending, EndedByAdmin}

\* The plan extra has no group.
PlanGroups == [silver |-> "vip", gold |-> "svip", extra |-> ""]
PlanPrices == [silver |-> 1, gold |-> 1, extra |-> 1]

Groups == INSTANCE SubscriptionOrders WITH
    Settings <- OrderSettings, subs <- held, now <- clock, budget <- left,
    hist <- made

-----------------------------------------------------------------------------
MCInit ==
    /\ part \in {"usage", "orders"}
    /\ Init /\ (part = "orders" => setting = TwoRows)
    /\ Groups!Init /\ (part = "usage" => terms = Competing)

MCNext ==
    /\ \/ part = "usage" /\ Next /\ UNCHANGED orderVars
       \/ part = "orders" /\ Groups!Next /\ UNCHANGED vars
    /\ UNCHANGED part

MCFairness ==
    /\ WF_vars(part = "usage" /\ Maintenance /\ UNCHANGED setting)
    /\ WF_orderVars(/\ part = "orders" /\ UNCHANGED terms
                    /\ \E o \in Orders : Groups!CompleteSubscriptionOrder(o))
    /\ WF_orderVars(part = "orders" /\ UNCHANGED terms /\ Groups!AdminCommits)

MCSpec == MCInit /\ [][MCNext]_<<part, vars, orderVars>> /\ MCFairness

\* What is used in a period stays within the plan, and a period is reset once.
UsagePerPeriod == PeriodWithinPlan /\ OneResetPerPeriod

\* An order makes one subscription, and purchases stay within the plan's limit
\* and the wallet.
PurchasesWithinPlan == Groups!FulfilledOnce /\ Groups!WithinPurchaseLimit

\* The user is in the group of an active subscription, and back in the plans'
\* group when none is left.
GroupFollowsPlans == Groups!UpgradeKept /\ Groups!GroupReverted

\* The maintenance pass gets to every subscription that is due or has ended,
\* and a paid order is fulfilled.
CatchesUp ==
    /\ part = "usage" => PassCatchesUp
    /\ part = "orders" => Groups!PaidIsFulfilled
=============================================================================
