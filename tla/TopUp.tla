------------------------------- MODULE TopUp -------------------------------
(***************************************************************************)
(* Top-up orders of one user: model/topup.go and the payment handlers      *)
(* controller/topup*.go.                                                   *)
(*                                                                         *)
(* An order is created at checkout, paid at a payment gateway outside the  *)
(* program, and completed by the gateway's notice, which reaches any node, *)
(* may come twice, and is sent again until it is acknowledged.  An         *)
(* administrator may complete an order by hand.  A step is a transaction   *)
(* on the order's row; the handlers that read the row first and save all   *)
(* of it later take two, under a lock that only their own node sees.       *)
(***************************************************************************)
EXTENDS Integers, FiniteSets

NoOrder == "none"

CONSTANTS
    Orders,         \* trade numbers
    Provider,       \* the payment_provider of each order
    Nodes,          \* nodes of the deployment
    Amounts,        \* amounts that can be ordered
    QuotaPerUnit,   \* quota of one unit of currency
    Settings        \* the settings a behaviour may run with, records of the
                    \* fields below

ASSUME SettingsAssumption ==
    /\ NoOrder \notin Orders
    /\ Amounts \subseteq Nat
    /\ QuotaPerUnit \in Nat
    /\ \A s \in Settings :
          /\ s.orders \subseteq Orders
          /\ s.nodes \subseteq Nodes /\ IsFiniteSet(s.nodes)
          /\ s.ceiling \in Int /\ s.quota \in Int /\ s.quota <= s.ceiling
          /\ s.faults \in Nat /\ s.acks \in Nat /\ s.manual \in Nat

VARIABLE setting    \* the one of this behaviour; it never changes

Offered == setting.orders          \* those of Orders that can be made
Running == setting.nodes           \* those of Nodes that run
MaxWalletQuota == setting.ceiling  \* the ceiling of a wallet
InitialQuota == setting.quota      \* the wallet at the start
FaultBudget == setting.faults      \* transactions that may fail, and crashes
LostAcks == setting.acks           \* answers to the gateway that get lost
Manual == setting.manual           \* completions by an administrator

VARIABLES
    row,       \* top_ups
    quota,     \* the user's wallet
    checkout,  \* where the request that creates an order is
    gateway,   \* the gateway's view of an order
    notice,    \* the notice of an order the gateway has yet to see acknowledged
    failing,   \* the order a node has read and is about to save as failed
    budget,    \* faults left
    credited   \* history: how often and how much an order credited

vars == <<setting, row, quota, checkout, gateway, notice, failing, budget,
          credited>>

Init ==
    /\ setting \in Settings
    /\ row = [o \in Orders |-> [status |-> "none", amount |-> 0]]
    /\ quota = InitialQuota
    /\ checkout = [o \in Orders |-> "none"]
    /\ gateway = [o \in Orders |-> "none"]
    /\ notice = [o \in Orders |-> "none"]
    /\ failing = [n \in Nodes |-> NoOrder]
    /\ budget = [fault |-> FaultBudget, ack |-> LostAcks, manual |-> Manual]
    /\ credited = [o \in Orders |-> [times |-> 0, sum |-> 0]]

-----------------------------------------------------------------------------
(* Quota.                                                                  *)

\* What an order is for: Creem's products are given in quota, the others in
\* units of currency.
Ordered(o, amount) ==
    IF Provider[o] = "creem" THEN amount ELSE amount * QuotaPerUnit

\* What the completion by hand credits.
ManualCreditOf(o, amount) == amount * QuotaPerUnit

\* The condition of creditTopUpQuota and of ValidateTopUpQuotaCapacity.
Fits(n) == n > 0 /\ n <= MaxWalletQuota /\ quota <= MaxWalletQuota - n

\* creditTopUpQuota for order o.
Credit(o, n) ==
    /\ quota' = quota + n
    /\ credited' = [credited EXCEPT ![o] = [times |-> @.times + 1,
                                            sum |-> @.sum + n]]

\* Requests of the user are billed meanwhile (reserveUserQuotaDB).
Spend ==
    /\ quota > 0
    /\ quota' = quota - 1
    /\ UNCHANGED <<row, checkout, gateway, notice, failing, budget, credited>>

-----------------------------------------------------------------------------
(* Checkout.                                                               *)

\* The order is stored as pending, when the wallet has room for it.
Insert(o, amount) ==
    /\ o \in Offered
    /\ row[o].status = "none"
    /\ Fits(Ordered(o, amount))
    /\ row' = [row EXCEPT ![o] = [status |-> "pending", amount |-> amount]]
    /\ UNCHANGED <<quota, notice, failing, budget, credited>>

\* RequestEpay and the RequestPay of Stripe ask the gateway first.
AsksFirst(o) ==
    /\ gateway' = [gateway EXCEPT ![o] = "open"]
    /\ UNCHANGED checkout

RequestEpay(o, amount) ==
    Provider[o] = "epay" /\ Insert(o, amount) /\ AsksFirst(o)

RequestStripePay(o, amount) ==
    Provider[o] = "stripe" /\ Insert(o, amount) /\ AsksFirst(o)

\* The others store the order first and then call the gateway.
StoresFirst(o) ==
    /\ checkout' = [checkout EXCEPT ![o] = "calling"]
    /\ UNCHANGED gateway

RequestCreemPay(o, amount) ==
    Provider[o] = "creem" /\ Insert(o, amount) /\ StoresFirst(o)

RequestWaffoPay(o, amount) ==
    Provider[o] = "waffo" /\ Insert(o, amount) /\ StoresFirst(o)

RequestWaffoPancakePay(o, amount) ==
    Provider[o] = "pancake" /\ Insert(o, amount) /\ StoresFirst(o)

\* The gateway has made a link for the user to pay with.
LinkCreated(o) ==
    /\ checkout[o] = "calling"
    /\ checkout' = [checkout EXCEPT ![o] = "none"]
    /\ gateway' = [gateway EXCEPT ![o] = "open"]
    /\ UNCHANGED <<row, quota, notice, failing, budget, credited>>

\* It has not, and the user cannot pay.  The handlers of Waffo then save the
\* order they inserted as failed, whatever the row is by now; the one of
\* Creem leaves it pending.
LinkFailed(o) ==
    /\ checkout[o] = "calling"
    /\ checkout' = [checkout EXCEPT ![o] = "none"]
    /\ row' = IF Provider[o] = "creem" THEN row
              ELSE [row EXCEPT ![o].status = "failed"]
    /\ UNCHANGED <<quota, gateway, notice, failing, budget, credited>>

\* The user pays, or the gateway gives the order up.
GatewayEnds(o, end) ==
    /\ gateway[o] = "open"
    /\ end = "failed" => Provider[o] \in {"stripe", "waffo"}
    /\ end = "expired" => Provider[o] = "stripe"
    /\ gateway' = [gateway EXCEPT ![o] = end]
    /\ notice' = [notice EXCEPT ![o] = end]
    /\ UNCHANGED <<row, quota, checkout, failing, budget, credited>>

-----------------------------------------------------------------------------
(* Notices.                                                                *)

Fault == budget.fault > 0 /\ budget' = [budget EXCEPT !.fault = @ - 1]

\* A bug this model can tell: a handler goes on without its order's lock.
LockFreeAlways(n, o) == n \in Nodes /\ o \in Orders

\* LockOrder: no other handler of the node has the order.
LockFree(n, o) == failing[n] # o

\* The answer reaches the gateway, or it is lost and the notice comes again.
Answered(o, ack) ==
    \/ /\ notice' = IF ack THEN [notice EXCEPT ![o] = "none"] ELSE notice
       /\ UNCHANGED budget
    \/ /\ ack
       /\ budget.ack > 0
       /\ budget' = [budget EXCEPT !.ack = @ - 1]
       /\ UNCHANGED notice

\* A bug this model can tell: an order that is done is completed again.
CompletableAlways(o) == row[o].status # "none"

\* An order is completed when it is pending.
Completable(o) == row[o].status = "pending"

Outcomes == {"credited", "done", "invalid", "refused", "failed"}

\* The transaction that completes an order with a credit of add: it credits,
\* finds the order done or in another state, is refused by the ceiling and
\* rolled back, or fails.
Recharged(o, add, outcome) ==
    IF outcome = "credited"
    THEN /\ Completable(o)
         /\ Fits(add)
         /\ row' = [row EXCEPT ![o].status = "success"]
         /\ Credit(o, add)
    ELSE /\ CASE outcome = "done"    -> row[o].status = "success"
              [] outcome = "invalid" -> row[o].status \notin {"success", "pending"}
              [] outcome = "refused" -> Completable(o) /\ ~Fits(add)
              [] outcome = "failed"  -> budget.fault > 0
         /\ UNCHANGED <<row, quota, credited>>

RechargeEpay(o, outcome) ==
    Recharged(o, row[o].amount * QuotaPerUnit, outcome)

\* Recharge, the one of Stripe.
Recharge(o, outcome) == Recharged(o, row[o].amount * QuotaPerUnit, outcome)

\* Creem's amount is quota.
RechargeCreem(o, outcome) == Recharged(o, row[o].amount, outcome)

RechargeWaffo(o, outcome) == Recharged(o, row[o].amount * QuotaPerUnit, outcome)

RechargeWaffoPancake(o, outcome) ==
    Recharged(o, row[o].amount * QuotaPerUnit, outcome)

\* The notice of a payment is handled on node n, and answered.
Paid(n, o, provider, outcome, ack) ==
    /\ notice[o] = "paid"
    /\ Provider[o] = provider
    /\ LockFree(n, o)
    /\ IF outcome = "failed"
       THEN /\ budget' = [budget EXCEPT !.fault = @ - 1]
            /\ notice' = IF ack THEN [notice EXCEPT ![o] = "none"] ELSE notice
       ELSE Answered(o, ack)
    /\ UNCHANGED <<checkout, gateway, failing>>

\* A bug this model can tell: a notice that failed is acknowledged too.
EpayNotifyAcknowledges(n, o) ==
    \E outcome \in Outcomes :
        /\ Paid(n, o, "epay", outcome, TRUE)
        /\ RechargeEpay(o, outcome)

\* EpayNotify answers fail unless the order is credited, now or before.
EpayNotify(n, o) ==
    \E outcome \in Outcomes :
        /\ Paid(n, o, "epay", outcome, outcome \in {"credited", "done"})
        /\ RechargeEpay(o, outcome)

\* sessionCompleted and sessionAsyncPaymentSucceeded: fulfillOrder, and 200
\* whatever came of it.
StripeFulfill(n, o) ==
    \E outcome \in Outcomes :
        /\ Paid(n, o, "stripe", outcome, TRUE)
        /\ Recharge(o, outcome)

\* handleCheckoutCompleted answers 200 also to an order that is not pending.
CreemCompleted(n, o) ==
    \E outcome \in Outcomes :
        /\ Paid(n, o, "creem", outcome,
                outcome \in {"credited", "done", "invalid"})
        /\ RechargeCreem(o, outcome)

\* handleWaffoPayment, of an order that was paid.
WaffoPaid(n, o) ==
    \E outcome \in Outcomes :
        /\ Paid(n, o, "waffo", outcome, outcome \in {"credited", "done"})
        /\ RechargeWaffo(o, outcome)

WaffoPancakeWebhook(n, o) ==
    \E outcome \in Outcomes :
        /\ Paid(n, o, "pancake", outcome, outcome \in {"credited", "done"})
        /\ RechargeWaffoPancake(o, outcome)

\* ResolveWaffoPancakeTradeNo takes a read that failed for an order that does
\* not exist, which is acknowledged.
WaffoPancakeUnread(o) ==
    /\ notice[o] = "paid"
    /\ Provider[o] = "pancake"
    /\ Fault
    /\ notice' = [notice EXCEPT ![o] = "none"]
    /\ UNCHANGED <<row, quota, checkout, gateway, failing, credited>>

\* UpdatePendingTopUpStatus.
UpdatePending(o, status) ==
    row' = IF row[o].status = "pending"
           THEN [row EXCEPT ![o].status = status] ELSE row

\* handleWaffoPayment for an order that was not paid; it is acknowledged also
\* when the transaction fails.
WaffoFailed(o) ==
    /\ notice[o] = "failed"
    /\ Provider[o] = "waffo"
    /\ \/ UpdatePending(o, "failed") /\ Answered(o, TRUE)
       \/ /\ Fault
          /\ notice' = [notice EXCEPT ![o] = "none"]
          /\ UNCHANGED row
    /\ UNCHANGED <<quota, checkout, gateway, failing, credited>>

\* sessionExpired.
StripeExpired(n, o) ==
    /\ notice[o] = "expired"
    /\ Provider[o] = "stripe"
    /\ LockFree(n, o)
    /\ \/ UpdatePending(o, "expired") /\ Answered(o, TRUE)
       \/ /\ Fault
          /\ notice' = [notice EXCEPT ![o] = "none"]
          /\ UNCHANGED row
    /\ UNCHANGED <<quota, checkout, gateway, failing, credited>>

\* sessionAsyncPaymentFailed takes the node's lock and reads the order.
StripeFailedReads(n, o) ==
    /\ notice[o] = "failed"
    /\ Provider[o] = "stripe"
    /\ failing[n] = NoOrder
    /\ IF row[o].status = "pending"
       THEN failing' = [failing EXCEPT ![n] = o] /\ UNCHANGED <<notice, budget>>
       ELSE Answered(o, TRUE) /\ UNCHANGED failing
    /\ UNCHANGED <<row, quota, checkout, gateway, credited>>

\* It saves the row it has read, as failed.
StripeFailedSaves(n) ==
    /\ failing[n] # NoOrder
    /\ \/ /\ row' = [row EXCEPT ![failing[n]].status = "failed"]
          /\ Answered(failing[n], TRUE)
       \/ /\ Fault
          /\ notice' = [notice EXCEPT ![failing[n]] = "none"]
          /\ UNCHANGED row
    /\ failing' = [failing EXCEPT ![n] = NoOrder]
    /\ UNCHANGED <<quota, checkout, gateway, credited>>

\* The node dies between the two; the notice comes again.
Crash(n) ==
    /\ failing[n] # NoOrder
    /\ Fault
    /\ failing' = [failing EXCEPT ![n] = NoOrder]
    /\ UNCHANGED <<row, quota, checkout, gateway, notice, credited>>

\* AdminCompleteTopUp and ManualCompleteTopUp; an order that is done stays so.
ManualComplete(n, o) ==
    /\ budget.manual > 0
    /\ budget' = [budget EXCEPT !.manual = @ - 1]
    /\ row[o].status # "none"
    /\ LockFree(n, o)
    /\ IF Completable(o) /\ Fits(ManualCreditOf(o, row[o].amount))
       THEN /\ row' = [row EXCEPT ![o].status = "success"]
            /\ Credit(o, ManualCreditOf(o, row[o].amount))
       ELSE UNCHANGED <<row, quota, credited>>
    /\ UNCHANGED <<checkout, gateway, notice, failing>>

-----------------------------------------------------------------------------
Checkout(o, amount) ==
    \/ RequestEpay(o, amount)
    \/ RequestStripePay(o, amount)
    \/ RequestCreemPay(o, amount)
    \/ RequestWaffoPay(o, amount)
    \/ RequestWaffoPancakePay(o, amount)

Notice(o) ==
    \/ \E n \in Running : \/ EpayNotify(n, o)
                        \/ StripeFulfill(n, o)
                        \/ CreemCompleted(n, o)
                        \/ WaffoPaid(n, o)
                        \/ WaffoPancakeWebhook(n, o)
                        \/ StripeExpired(n, o)
                        \/ StripeFailedReads(n, o)
    \/ WaffoFailed(o)
    \/ WaffoPancakeUnread(o)

Next ==
    /\ \/ \E o \in Orders :
            \/ \E a \in Amounts : Checkout(o, a)
            \/ LinkCreated(o)
            \/ LinkFailed(o)
            \/ \E end \in {"paid", "failed", "expired"} : GatewayEnds(o, end)
            \/ Notice(o)
            \/ \E n \in Running : ManualComplete(n, o)
       \/ \E n \in Running : StripeFailedSaves(n) \/ Crash(n)
       \/ Spend
    /\ UNCHANGED setting

\* A gateway sends a notice again until it is acknowledged.
Fairness == \A o \in Orders : WF_vars(Notice(o) /\ UNCHANGED setting)

Spec == Init /\ [][Next]_vars /\ Fairness

-----------------------------------------------------------------------------
\* An order is credited at most once, however often its notice comes, on
\* whichever nodes, and whether or not an administrator completes it too
\* (RechargeEpay: at most one credit for the callbacks of one order); one
\* that reads success was, because a credit that the ceiling of
\* creditTopUpQuota refuses leaves the order pending.
CreditedOnce ==
    \A o \in Orders : /\ credited[o].times <= 1
                      /\ row[o].status = "success" => credited[o].times = 1

\* An order credits the quota that its checkout showed and checked, unless an
\* administrator may complete one of Creem.
CreditedAsOrdered ==
    \A o \in Orders :
        (Manual > 0 => Provider[o] # "creem") /\ credited[o].times = 1
        => credited[o].sum = Ordered(o, row[o].amount)

\* Notices that come at the same time do not take the wallet over its ceiling,
\* though each order was only checked against it on its own at checkout.
WalletWithinCeiling == quota <= MaxWalletQuota

\* An order that was completed stays so: on one node, whose lock keeps them
\* apart, no handler of a notice saves an older copy of its row over it.
\* (The checkouts of Waffo do when an administrator is faster.)
SuccessIsFinal ==
    [][\A o \in Orders :
         /\ Cardinality(Running) = 1
         /\ Manual > 0 => Provider[o] \notin {"waffo", "pancake"}
         /\ row[o].status = "success"
         => row'[o].status = "success"]_vars

\* The ceiling leaves room for every order.
Roomy ==
    \A a \in Amounts :
        InitialQuota + Cardinality(Offered) * a * QuotaPerUnit <= MaxWalletQuota

\* A payment is credited in the end, when transactions fail only finitely
\* often, by the gateways whose handlers ask for a failed notice to be sent
\* again, if the wallet has room.
PaidIsCredited ==
    \A o \in Orders :
        (/\ Roomy
         /\ Provider[o] \in {"epay", "creem", "waffo"}
         /\ gateway[o] = "paid") ~> credited[o].times > 0
=============================================================================
