--------------------------- MODULE PaymentsProofs ---------------------------
(***************************************************************************)
(* Proofs about what is paid into a wallet: top-up orders (TopUp),         *)
(* redemption codes and check-ins (Redemption), for any orders, nodes,     *)
(* requests, codes, amounts and budgets of faults.                         *)
(***************************************************************************)
EXTENDS MCPayments, FiniteSetTheorems, TLAPS

-----------------------------------------------------------------------------
(* Top-up orders: types.                                                   *)

Statuses == {"none", "pending", "success", "failed", "expired"}

TopUpTyped ==
    /\ setting \in Settings
    /\ row \in [Orders -> [status : Statuses, amount : Nat]]
    /\ quota \in Int
    /\ checkout \in [Orders -> {"none", "calling"}]
    /\ gateway \in [Orders -> {"none", "open", "paid", "failed", "expired"}]
    /\ notice \in [Orders -> {"none", "paid", "failed", "expired"}]
    /\ failing \in [Nodes -> Orders \cup {NoOrder}]
    /\ credited \in [Orders -> [times : Nat, sum : Int]]
    /\ budget \in [fault : Int, ack : Int, manual : Nat]
    /\ budget.manual <= Manual

LEMMA SettingFacts ==
    ASSUME setting \in Settings
    PROVE  /\ Offered \subseteq Orders /\ Running \subseteq Nodes
           /\ MaxWalletQuota \in Int /\ InitialQuota \in Int
           /\ InitialQuota <= MaxWalletQuota /\ Manual \in Nat
           /\ FaultBudget \in Nat /\ LostAcks \in Nat
  BY SettingsAssumption
  DEF Offered, Running, MaxWalletQuota, InitialQuota, Manual, FaultBudget, LostAcks

LEMMA OrderedIsNat ==
    ASSUME NEW o, NEW a \in Nat
    PROVE  Ordered(o, a) \in Nat /\ a * QuotaPerUnit \in Nat
<1>1. a * QuotaPerUnit \in Nat
  BY SettingsAssumption
<1> QED
  BY <1>1 DEF Ordered

-----------------------------------------------------------------------------
(* What a step does to the orders, the wallet and the credits.             *)

Inserted(o) ==
    /\ row[o].status = "none"
    /\ \E a \in Amounts :
          row' = [row EXCEPT ![o] = [status |-> "pending", amount |-> a]]
    /\ UNCHANGED <<quota, credited>>

\* A pending order is completed, with the quota ordered, or by hand.
Completed(o) ==
    /\ row[o].status = "pending"
    /\ row' = [row EXCEPT ![o].status = "success"]
    /\ \E n \in Nat :
          /\ Fits(n)
          /\ Credit(o, n)
          /\ n = Ordered(o, row[o].amount) \/ (Provider[o] = "creem" /\ Manual > 0)

\* An order is given up, perhaps over a newer status.
GivenUp(o) ==
    /\ \E s \in {"failed", "expired"} : row' = [row EXCEPT ![o].status = s]
    /\ UNCHANGED <<quota, credited>>

Effect ==
    \/ UNCHANGED <<row, quota, credited>>
    \/ row' = row /\ quota' = quota - 1 /\ credited' = credited
    \/ \E o \in Orders : Inserted(o) \/ Completed(o) \/ GivenUp(o)

LEMMA RechargedEffect ==
    ASSUME NEW o \in Orders, NEW add \in Nat, NEW outcome, Recharged(o, add, outcome),
           add = Ordered(o, row[o].amount)
    PROVE  Effect
  BY DEF Recharged, Effect, Completed, Completable

LEMMA NoticeEffect ==
    ASSUME TopUpTyped, NEW o \in Orders, Notice(o) PROVE Effect
<1>1. row[o].amount \in Nat /\ row[o].amount * QuotaPerUnit \in Nat
  BY OrderedIsNat DEF TopUpTyped
<1>2. ASSUME NEW n \in Running,
             \/ EpayNotify(n, o) \/ StripeFulfill(n, o) \/ CreemCompleted(n, o)
             \/ WaffoPaid(n, o) \/ WaffoPancakeWebhook(n, o)
      PROVE  Effect
  <2>1. PICK outcome \in Outcomes :
           \/ Provider[o] # "creem" /\ Recharged(o, row[o].amount * QuotaPerUnit, outcome)
           \/ Provider[o] = "creem" /\ Recharged(o, row[o].amount, outcome)
    BY <1>2 DEF EpayNotify, StripeFulfill, CreemCompleted, WaffoPaid, WaffoPancakeWebhook,
                Paid, RechargeEpay, Recharge, RechargeCreem, RechargeWaffo,
                RechargeWaffoPancake
  <2> QED
    BY <1>1, <2>1, RechargedEffect DEF Ordered
<1>3. ASSUME WaffoFailed(o) \/ \E n \in Running : StripeExpired(n, o)
      PROVE  Effect
  BY <1>3 DEF WaffoFailed, StripeExpired, UpdatePending, Effect, GivenUp
<1>4. ASSUME WaffoPancakeUnread(o) \/ \E n \in Running : StripeFailedReads(n, o)
      PROVE  Effect
  BY <1>4 DEF WaffoPancakeUnread, StripeFailedReads, Effect
<1> QED
  BY <1>2, <1>3, <1>4 DEF Notice

LEMMA ManualEffect ==
    ASSUME TopUpTyped, NEW o \in Orders, NEW n, ManualComplete(n, o) PROVE Effect
<1>1. row[o].amount \in Nat /\ ManualCreditOf(o, row[o].amount) \in Nat
  BY OrderedIsNat DEF TopUpTyped, ManualCreditOf
<1>2. Manual > 0
  BY SettingFacts DEF TopUpTyped, ManualComplete
<1> QED
  BY <1>1, <1>2 DEF ManualComplete, Effect, Completed, Completable, Ordered, ManualCreditOf

LEMMA NextEffect ==
    ASSUME TopUpTyped, [Next]_vars PROVE Effect
<1>1. ASSUME NEW o \in Orders, NEW a \in Amounts, Checkout(o, a) PROVE Effect
  BY <1>1 DEF Checkout, RequestEpay, RequestStripePay, RequestCreemPay, RequestWaffoPay,
              RequestWaffoPancakePay, Insert, Effect, Inserted
<1>2. ASSUME NEW o \in Orders, \/ LinkCreated(o) \/ LinkFailed(o)
                               \/ \E end : GatewayEnds(o, end)
      PROVE  Effect
  BY <1>2 DEF LinkCreated, LinkFailed, GatewayEnds, Effect, GivenUp
<1>3. ASSUME NEW n \in Running, StripeFailedSaves(n) \/ Crash(n) PROVE Effect
  <2>1. failing[n] \in Orders \/ failing[n] = NoOrder
    BY SettingFacts DEF TopUpTyped
  <2> QED
    BY <1>3, <2>1 DEF StripeFailedSaves, Crash, Effect, GivenUp
<1>4. CASE Spend
  BY <1>4 DEF Spend, Effect
<1>5. CASE UNCHANGED vars
  BY <1>5 DEF vars, Effect
<1> QED
  BY <1>1, <1>2, <1>3, <1>4, <1>5, NoticeEffect, ManualEffect DEF Next

\* The rest of the state: the requests, the gateway and the notices.
LEMMA NextTyped ==
    ASSUME TopUpTyped, [Next]_vars PROVE TopUpTyped'
<1>1. /\ setting' = setting /\ setting \in Settings /\ Running \subseteq Nodes
      /\ Manual' = Manual /\ Manual \in Nat
  BY SettingFacts DEF Next, vars, TopUpTyped, Manual
<1>2. /\ row' \in [Orders -> [status : Statuses, amount : Nat]]
      /\ quota' \in Int
      /\ credited' \in [Orders -> [times : Nat, sum : Int]]
  <2>1. CASE UNCHANGED <<row, quota, credited>>
    BY <2>1 DEF TopUpTyped
  <2>2. CASE row' = row /\ quota' = quota - 1 /\ credited' = credited
    BY <2>2 DEF TopUpTyped
  <2>3. ASSUME NEW o \in Orders, Inserted(o) \/ GivenUp(o)
        PROVE  /\ row' \in [Orders -> [status : Statuses, amount : Nat]]
               /\ quota' = quota /\ credited' = credited
    BY <2>3, SettingsAssumption, SMTT(60)
       DEF TopUpTyped, Inserted, GivenUp, Statuses
  <2>4. ASSUME NEW o \in Orders, Completed(o)
        PROVE  /\ row' \in [Orders -> [status : Statuses, amount : Nat]]
               /\ quota' \in Int
               /\ credited' \in [Orders -> [times : Nat, sum : Int]]
    <3>1. row' \in [Orders -> [status : Statuses, amount : Nat]]
      BY <2>4 DEF TopUpTyped, Completed, Statuses
    <3>2. PICK n \in Nat : Credit(o, n)
      BY <2>4 DEF Completed
    <3>3. quota' \in Int
      BY <3>2 DEF TopUpTyped, Credit
    <3>4. [times |-> credited[o].times + 1, sum |-> credited[o].sum + n]
             \in [times : Nat, sum : Int]
      BY DEF TopUpTyped
    <3>5. credited' = [credited EXCEPT ![o] = [times |-> credited[o].times + 1,
                                               sum |-> credited[o].sum + n]]
      BY <3>2 DEF TopUpTyped, Credit
    <3>6. credited' \in [Orders -> [times : Nat, sum : Int]]
      BY <3>4, <3>5 DEF TopUpTyped
    <3> QED
      BY <3>1, <3>3, <3>6
  <2> QED
    BY <2>1, <2>2, <2>3, <2>4, NextEffect DEF Effect, TopUpTyped
<1>3. /\ checkout' \in [Orders -> {"none", "calling"}]
      /\ gateway' \in [Orders -> {"none", "open", "paid", "failed", "expired"}]
  <2>1. ASSUME NEW o \in Orders, Notice(o) PROVE UNCHANGED <<checkout, gateway>>
    BY <2>1 DEF Notice, EpayNotify, StripeFulfill, CreemCompleted, WaffoPaid,
                WaffoPancakeWebhook, Paid, StripeExpired, StripeFailedReads, WaffoFailed,
                WaffoPancakeUnread
  <2>2. ASSUME NEW o \in Orders, NEW a, Checkout(o, a) PROVE AsksFirst(o) \/ StoresFirst(o)
    BY <2>2 DEF Checkout, RequestEpay, RequestStripePay, RequestCreemPay,
                RequestWaffoPay, RequestWaffoPancakePay
  <2>3. ASSUME NEW o \in Orders,
               \/ AsksFirst(o) \/ StoresFirst(o) \/ LinkCreated(o) \/ LinkFailed(o)
               \/ \E end \in {"paid", "failed", "expired"} : GatewayEnds(o, end)
        PROVE  /\ checkout' \in [Orders -> {"none", "calling"}]
               /\ gateway' \in [Orders -> {"none", "open", "paid", "failed", "expired"}]
    BY <2>3 DEF TopUpTyped, AsksFirst, StoresFirst, LinkCreated, LinkFailed, GatewayEnds
  <2>4. ASSUME UNCHANGED <<checkout, gateway>>
        PROVE  /\ checkout' \in [Orders -> {"none", "calling"}]
               /\ gateway' \in [Orders -> {"none", "open", "paid", "failed", "expired"}]
    BY <2>4 DEF TopUpTyped
  <2>5. ASSUME \/ \E n \in Running, o \in Orders : ManualComplete(n, o)
               \/ \E n \in Running : StripeFailedSaves(n) \/ Crash(n)
               \/ Spend \/ UNCHANGED vars
        PROVE  UNCHANGED <<checkout, gateway>>
    BY <2>5 DEF ManualComplete, StripeFailedSaves, Crash, Spend, vars
  <2> QED
    BY <2>1, <2>2, <2>3, <2>4, <2>5 DEF Next
<1>4. notice' \in [Orders -> {"none", "paid", "failed", "expired"}]
  <2>1. \/ UNCHANGED notice
        \/ \E o \in Orders, end \in {"none", "paid", "failed", "expired"} :
              notice' = [notice EXCEPT ![o] = end]
    <3>1. ASSUME NEW n \in Running, StripeFailedSaves(n)
          PROVE  \E o \in Orders, end \in {"none", "paid", "failed", "expired"} :
                    notice' = [notice EXCEPT ![o] = end] \/ notice' = notice
      <4>1. failing[n] \in Orders
        BY <1>1, <3>1 DEF TopUpTyped, StripeFailedSaves
      <4> QED
        BY <3>1, <4>1 DEF StripeFailedSaves, Answered
    <3>2. ASSUME NEW o \in Orders, Notice(o)
          PROVE  notice' = [notice EXCEPT ![o] = "none"] \/ notice' = notice
      BY <3>2 DEF Notice, EpayNotify, StripeFulfill, CreemCompleted, WaffoPaid,
                  WaffoPancakeWebhook, Paid, StripeExpired, StripeFailedReads, WaffoFailed,
                  WaffoPancakeUnread, Answered
    <3> QED
      BY <3>1, <3>2 DEF Next, vars, Checkout, RequestEpay, RequestStripePay,
         RequestCreemPay, RequestWaffoPay, RequestWaffoPancakePay, Insert, LinkCreated,
         LinkFailed, GatewayEnds, Crash, Spend, ManualComplete
  <2> QED
    BY <2>1 DEF TopUpTyped
<1>5. failing' \in [Nodes -> Orders \cup {NoOrder}]
  <2>1. ASSUME NEW o \in Orders, Notice(o)
        PROVE  \/ failing' = failing
               \/ \E n \in Running : failing' = [failing EXCEPT ![n] = o]
    BY <2>1 DEF Notice, EpayNotify, StripeFulfill, CreemCompleted, WaffoPaid,
                WaffoPancakeWebhook, Paid, StripeExpired, StripeFailedReads, WaffoFailed,
                WaffoPancakeUnread
  <2>2. ASSUME NEW n \in Running, StripeFailedSaves(n) \/ Crash(n)
        PROVE  failing' = [failing EXCEPT ![n] = NoOrder]
    BY <2>2 DEF StripeFailedSaves, Crash
  <2>3. ASSUME ~\E o \in Orders : Notice(o), ~\E n \in Running : StripeFailedSaves(n) \/ Crash(n)
        PROVE  failing' = failing
    BY <2>3 DEF Next, vars, Checkout, RequestEpay, RequestStripePay, RequestCreemPay,
                RequestWaffoPay, RequestWaffoPancakePay, Insert, LinkCreated, LinkFailed,
                GatewayEnds, Spend, ManualComplete
  <2> QED
    BY <1>1, <2>1, <2>2, <2>3, ZenonT(60) DEF TopUpTyped
<1>6. budget' \in [fault : Int, ack : Int, manual : Nat] /\ budget'.manual <= Manual
  <2> DEFINE Spent == \/ budget' = budget
                      \/ budget' = [budget EXCEPT !.fault = @ - 1]
                      \/ budget' = [budget EXCEPT !.ack = @ - 1]
                      \/ budget.manual > 0 /\ budget' = [budget EXCEPT !.manual = @ - 1]
  <2>1. ASSUME NEW o \in Orders, Notice(o) PROVE Spent
    BY <2>1 DEF Notice, EpayNotify, StripeFulfill, CreemCompleted, WaffoPaid,
                WaffoPancakeWebhook, Paid, Answered, StripeExpired, StripeFailedReads,
                WaffoFailed, WaffoPancakeUnread, Fault
  <2>2. ASSUME NEW n \in Running, StripeFailedSaves(n) \/ Crash(n) PROVE Spent
    BY <2>2 DEF StripeFailedSaves, Crash, Answered, Fault
  <2>3. ASSUME ~\E o \in Orders : Notice(o), ~\E n \in Running : StripeFailedSaves(n) \/ Crash(n)
        PROVE  Spent
    BY <2>3 DEF Next, vars, Checkout, RequestEpay, RequestStripePay, RequestCreemPay,
                RequestWaffoPay, RequestWaffoPancakePay, Insert, LinkCreated, LinkFailed,
                GatewayEnds, Spend, ManualComplete
  <2>4. Spent
    BY <2>1, <2>2, <2>3
  <2> QED
    BY <1>1, <2>4 DEF TopUpTyped
<1> QED
  BY <1>1, <1>2, <1>3, <1>4, <1>5, <1>6 DEF TopUpTyped

LEMMA InitTyped == Init => TopUpTyped
<1> SUFFICES ASSUME Init PROVE TopUpTyped
  OBVIOUS
<1>1. setting \in Settings
  BY DEF Init
<1> QED
  BY <1>1, SettingFacts DEF Init, TopUpTyped, Statuses

-----------------------------------------------------------------------------
(* Credits: an order that is new or pending has credited nothing, and only *)
(* a pending one is completed.                                             *)

ByHand(o) == Manual > 0 /\ Provider[o] = "creem"

CreditOK(o) ==
    /\ credited[o].times \in {0, 1}
    /\ credited[o].times = 0 => credited[o].sum = 0
    /\ row[o].status \in {"none", "pending"} => credited[o].times = 0
    /\ row[o].status = "success" => credited[o].times = 1
    /\ credited[o].times = 1 =>
          ByHand(o) \/ credited[o].sum = Ordered(o, row[o].amount)

CInv ==
    /\ TopUpTyped
    /\ \A o \in Orders : CreditOK(o)
    /\ quota <= MaxWalletQuota

LEMMA EffectCredits ==
    ASSUME CInv, [Next]_vars PROVE CInv'
<1>1. TopUpTyped /\ TopUpTyped' /\ Effect
  BY NextTyped, NextEffect DEF CInv
<1>2. Manual' = Manual /\ MaxWalletQuota' = MaxWalletQuota /\ MaxWalletQuota \in Int
  BY <1>1, SettingFacts DEF Next, vars, Manual, MaxWalletQuota, TopUpTyped
<1>3. CASE row' = row /\ credited' = credited /\ quota' \in {quota, quota - 1}
  BY <1>1, <1>2, <1>3 DEF CInv, CreditOK, ByHand, TopUpTyped
<1>4. ASSUME NEW o \in Orders, Inserted(o) PROVE CInv'
  <2>1. credited[o].times = 0 /\ row'[o].status = "pending"
    BY <1>1, <1>4 DEF CInv, CreditOK, Inserted, TopUpTyped
  <2>2. \A q \in Orders \ {o} : row'[q] = row[q]
    BY <1>1, <1>4 DEF Inserted, TopUpTyped
  <2>3. credited' = credited /\ quota' = quota
    BY <1>4 DEF Inserted
  <2>4. \A q \in Orders : CreditOK(q)'
    BY <1>2, <2>1, <2>2, <2>3 DEF CInv, CreditOK, ByHand
  <2> QED
    BY <1>1, <1>2, <2>3, <2>4 DEF CInv
<1>5. ASSUME NEW o \in Orders, GivenUp(o) PROVE CInv'
  <2>1. row'[o].status \in {"failed", "expired"} /\ row'[o].amount = row[o].amount
    BY <1>1, <1>5 DEF GivenUp, TopUpTyped
  <2>2. \A q \in Orders \ {o} : row'[q] = row[q]
    BY <1>1, <1>5 DEF GivenUp, TopUpTyped
  <2>3. credited' = credited /\ quota' = quota
    BY <1>5 DEF GivenUp
  <2>4. \A q \in Orders : CreditOK(q)'
    BY <1>2, <2>1, <2>2, <2>3 DEF CInv, CreditOK, ByHand
  <2> QED
    BY <1>1, <1>2, <2>3, <2>4 DEF CInv
<1>6. ASSUME NEW o \in Orders, Completed(o) PROVE CInv'
  <2>1. PICK n \in Nat :
           /\ Fits(n) /\ Credit(o, n)
           /\ n = Ordered(o, row[o].amount) \/ (Provider[o] = "creem" /\ Manual > 0)
    BY <1>6 DEF Completed
  <2>2. row'[o].status = "success" /\ row'[o].amount = row[o].amount
    BY <1>1, <1>6 DEF Completed, TopUpTyped
  <2>3. \A q \in Orders \ {o} : row'[q] = row[q] /\ credited'[q] = credited[q]
    BY <1>1, <1>6, <2>1 DEF Completed, TopUpTyped, Credit
  <2>4. credited[o].times = 0 /\ credited[o].sum = 0
    BY <1>6 DEF Completed, CInv, CreditOK
  <2>5. credited'[o] = [times |-> credited[o].times + 1, sum |-> credited[o].sum + n]
    BY <1>1, <2>1 DEF Credit, TopUpTyped
  <2>6. credited'[o].times = 1 /\ credited'[o].sum = n
    BY <2>4, <2>5
  <2>7. CreditOK(o)'
    BY <1>2, <2>1, <2>2, <2>6 DEF CreditOK, ByHand
  <2>8. \A q \in Orders : CreditOK(q)'
    BY <1>2, <2>3, <2>7 DEF CInv, CreditOK, ByHand
  <2>9. quota' <= MaxWalletQuota
    BY <1>1, <1>2, <2>1 DEF Fits, Credit, TopUpTyped
  <2> QED
    BY <1>1, <1>2, <2>8, <2>9 DEF CInv
<1> QED
  BY <1>1, <1>3, <1>4, <1>5, <1>6 DEF Effect

LEMMA InitCredits == Init => CInv
<1> SUFFICES ASSUME Init PROVE CInv
  OBVIOUS
<1>1. TopUpTyped
  BY InitTyped
<1>2. quota <= MaxWalletQuota
  BY <1>1, SettingFacts DEF Init, TopUpTyped
<1>3. \A o \in Orders : CreditOK(o)
  BY DEF Init, CreditOK
<1> QED
  BY <1>1, <1>2, <1>3 DEF CInv

LEMMA CreditsExact == CInv => CreditsAreExact
  BY DEF CInv, CreditOK, ByHand, CreditsAreExact, CreditedOnce, CreditedAsOrdered,
         WalletWithinCeiling

LEMMA MCTopUpStep == [MCNext]_<<part, vars, givenVars>> => [Next]_vars
  BY DEF MCNext, vars

\* Every order is credited at most once, whatever notices come again, on whichever
\* nodes, and whoever completes it by hand; it credits what was ordered; and the
\* conditional credit (creditTopUpQuota) keeps the wallet within its ceiling.
THEOREM CreditedExactly == MCSpec => []CreditsAreExact
<1>1. MCInit => CInv
  BY InitCredits DEF MCInit
<1>2. CInv /\ [MCNext]_<<part, vars, givenVars>> => CInv'
  BY EffectCredits, MCTopUpStep
<1> QED
  BY <1>1, <1>2, CreditsExact, PTL DEF MCSpec

-----------------------------------------------------------------------------
(* Success is final where one node's lock keeps the handlers apart.        *)

OneRuns == Cardinality(Running) = 1

\* A gateway hears of an order after it was stored, and of one that was stored
\* first not before its link is made.
OpensLate(o) ==
    /\ row[o].status = "none" =>
          gateway[o] = "none" /\ notice[o] = "none" /\ checkout[o] = "none"
    /\ checkout[o] = "calling" =>
          /\ gateway[o] = "none" /\ notice[o] = "none"
          /\ Provider[o] \in {"creem", "waffo", "pancake"}
          /\ Manual = 0 => row[o].status = "pending"

\* An order read by a handler that will save it as failed is still pending.
FailsAlone(n) ==
    failing[n] # NoOrder =>
       /\ n \in Running /\ Provider[failing[n]] = "stripe"
       /\ OneRuns => row[failing[n]].status = "pending"

FInv ==
    /\ TopUpTyped
    /\ \A o \in Orders : OpensLate(o)
    /\ \A n \in Nodes : FailsAlone(n)

\* What SuccessIsFinal says of a step, for one order.
Keeps(o) ==
    /\ OneRuns
    /\ Manual > 0 => Provider[o] \notin {"waffo", "pancake"}
    /\ row[o].status = "success"
    => row'[o].status = "success"

\* Only order o has a turn.
Turn(o) ==
    \A q \in Orders \ {o} :
       /\ row'[q] = row[q] /\ checkout'[q] = checkout[q]
       /\ gateway'[q] = gateway[q] /\ notice'[q] = notice[q]

LEMMA OnlyNode ==
    ASSUME setting \in Settings, OneRuns, NEW n \in Running, NEW m \in Running
    PROVE  n = m
<1>1. IsFiniteSet(Running)
  BY SettingsAssumption DEF Running
<1> QED
  BY <1>1, FS_Singleton DEF OneRuns

\* The lock of the only node is held by nobody else.
LEMMA LockedOut ==
    ASSUME FInv, NEW o \in Orders, NEW n \in Running, LockFree(n, o), OneRuns,
           NEW m \in Nodes
    PROVE  failing[m] # o
<1>1. o # NoOrder
  BY SettingsAssumption
<1>2. failing[m] = o => m \in Running
  BY <1>1 DEF FInv, FailsAlone
<1> QED
  BY <1>2, OnlyNode DEF LockFree, FInv, TopUpTyped

LEMMA TurnTaken ==
    ASSUME FInv, TopUpTyped', setting' = setting, NEW o \in Orders, Turn(o),
           OpensLate(o)', Keeps(o), \A n \in Nodes : FailsAlone(n)'
    PROVE  FInv' /\ \A q \in Orders : Keeps(q)
<1>1. \A q \in Orders \ {o} : OpensLate(q)'
  BY DEF FInv, Turn, OpensLate, Manual
<1>2. \A q \in Orders \ {o} : Keeps(q)
  BY DEF Turn, Keeps
<1> QED
  BY <1>1, <1>2 DEF FInv

LEMMA CheckoutFinal ==
    ASSUME FInv, TopUpTyped', setting' = setting, NEW o \in Orders, NEW a \in Amounts,
           Checkout(o, a)
    PROVE  FInv' /\ \A q \in Orders : Keeps(q)
<1>1. /\ row[o].status = "none" /\ row'[o].status = "pending"
      /\ notice' = notice /\ failing' = failing
      /\ \A q \in Orders \ {o} : row'[q] = row[q]
  BY DEF FInv, TopUpTyped, Checkout, RequestEpay, RequestStripePay, RequestCreemPay,
         RequestWaffoPay, RequestWaffoPancakePay, Insert
<1>2. gateway[o] = "none" /\ notice[o] = "none" /\ checkout[o] = "none"
  BY <1>1 DEF FInv, OpensLate
<1>3. \/ AsksFirst(o)
      \/ StoresFirst(o) /\ Provider[o] \in {"creem", "waffo", "pancake"}
  BY DEF Checkout, RequestEpay, RequestStripePay, RequestCreemPay,
         RequestWaffoPay, RequestWaffoPancakePay
<1>4. Turn(o)
  BY <1>1, <1>3 DEF Turn, AsksFirst, StoresFirst, FInv, TopUpTyped
<1>5. OpensLate(o)'
  BY <1>1, <1>2, <1>3 DEF OpensLate, AsksFirst, StoresFirst, FInv, TopUpTyped
<1>6. Keeps(o)
  BY <1>1 DEF Keeps
<1>7. ASSUME NEW n \in Nodes PROVE FailsAlone(n)'
  <2>1. failing[n] # NoOrder => failing[n] \in Orders
    BY DEF FInv, TopUpTyped
  <2> QED
    BY <1>1, <2>1 DEF FInv, FailsAlone, OneRuns, Running
<1> QED
  BY <1>4, <1>5, <1>6, <1>7, TurnTaken

LEMMA LinkFinal ==
    ASSUME FInv, TopUpTyped', setting' = setting, NEW o \in Orders,
           \/ LinkCreated(o) \/ LinkFailed(o)
           \/ \E end \in {"paid", "failed", "expired"} : GatewayEnds(o, end)
    PROVE  FInv' /\ \A q \in Orders : Keeps(q)
<1>1. /\ OpensLate(o) /\ failing' = failing /\ row[o].status \in Statuses
      /\ \A q \in Orders \ {o} : row'[q] = row[q]
  BY DEF FInv, TopUpTyped, LinkCreated, LinkFailed, GatewayEnds
<1>2. Turn(o)
  BY DEF Turn, FInv, TopUpTyped, LinkCreated, LinkFailed, GatewayEnds
<1>3. CASE LinkCreated(o) \/ \E end \in {"paid", "failed", "expired"} : GatewayEnds(o, end)
  <2>1. row' = row
    BY <1>3 DEF LinkCreated, GatewayEnds
  <2>2. OpensLate(o)'
    BY <1>1, <1>3, <2>1 DEF OpensLate, LinkCreated, GatewayEnds, FInv, TopUpTyped
  <2>3. Keeps(o)
    BY <2>1 DEF Keeps
  <2>4. ASSUME NEW n \in Nodes PROVE FailsAlone(n)'
    BY <1>1, <2>1 DEF FInv, FailsAlone, OneRuns, Running
  <2> QED
    BY <1>2, <2>2, <2>3, <2>4, TurnTaken
<1>4. CASE LinkFailed(o)
  <2>1. /\ checkout[o] = "calling" /\ checkout'[o] = "none"
        /\ row'[o].status \in {row[o].status, "failed"}
        /\ Provider[o] = "creem" => row' = row
    BY <1>4 DEF LinkFailed, FInv, TopUpTyped
  <2>2. /\ row[o].status # "none" /\ Provider[o] \in {"creem", "waffo", "pancake"}
        /\ Manual = 0 => row[o].status = "pending"
    BY <1>1, <2>1 DEF OpensLate
  <2>3. OpensLate(o)'
    BY <2>1, <2>2 DEF OpensLate
  <2>4. Keeps(o)
    BY <2>1, <2>2, SettingFacts DEF Keeps, FInv, TopUpTyped
  <2>5. ASSUME NEW n \in Nodes PROVE FailsAlone(n)'
    <3>1. failing[n] # NoOrder => failing[n] \in Orders \ {o}
      BY <2>2 DEF FInv, TopUpTyped, FailsAlone
    <3> QED
      BY <1>1, <3>1 DEF FInv, FailsAlone, OneRuns, Running
  <2> QED
    BY <1>2, <2>3, <2>4, <2>5, TurnTaken
<1> QED
  BY <1>3, <1>4

\* A notice on node n completes, or finds no longer pending, an order whose lock
\* no other handler of the node has.
LEMMA NoticeFinal ==
    ASSUME FInv, TopUpTyped', setting' = setting, NEW o \in Orders, Notice(o)
    PROVE  FInv' /\ \A q \in Orders : Keeps(q)
<1>1. notice[o] # "none" /\ checkout' = checkout /\ gateway' = gateway
  BY DEF Notice, EpayNotify, StripeFulfill, CreemCompleted, WaffoPaid,
         WaffoPancakeWebhook, Paid, StripeExpired, StripeFailedReads, WaffoFailed,
         WaffoPancakeUnread
<1>2. checkout[o] # "calling" /\ row[o].status # "none"
  BY <1>1 DEF FInv, OpensLate
<1>3. notice' = [notice EXCEPT ![o] = "none"] \/ notice' = notice
  BY DEF Notice, EpayNotify, StripeFulfill, CreemCompleted, WaffoPaid,
         WaffoPancakeWebhook, Paid, StripeExpired, StripeFailedReads, WaffoFailed,
         WaffoPancakeUnread, Answered
<1>4. \/ row' = row
      \/ /\ row[o].status = "pending"
         /\ \E s \in {"success", "failed", "expired"} : row' = [row EXCEPT ![o].status = s]
  BY DEF Notice, EpayNotify, StripeFulfill, CreemCompleted, WaffoPaid,
         WaffoPancakeWebhook, StripeExpired, StripeFailedReads, WaffoFailed,
         WaffoPancakeUnread, UpdatePending, Recharged, RechargeEpay, Recharge,
         RechargeCreem, RechargeWaffo, RechargeWaffoPancake, Completable
<1>5. Turn(o) /\ row'[o].status # "none"
  BY <1>1, <1>2, <1>3, <1>4 DEF Turn, FInv, TopUpTyped
<1>6. OpensLate(o)' /\ Keeps(o)
  BY <1>1, <1>2, <1>4, <1>5 DEF OpensLate, Keeps
<1>7. \/ \E n \in Running : failing' = failing /\ LockFree(n, o)
      \/ failing' = failing /\ Provider[o] # "stripe"
      \/ row' = row /\ failing' = failing
      \/ \E n \in Running :
            /\ row' = row /\ failing' = [failing EXCEPT ![n] = o]
            /\ Provider[o] = "stripe" /\ row[o].status = "pending"
  BY DEF Notice, EpayNotify, StripeFulfill, CreemCompleted, WaffoPaid,
         WaffoPancakeWebhook, Paid, StripeExpired, StripeFailedReads, WaffoFailed,
         WaffoPancakeUnread
<1>8. ASSUME NEW m \in Nodes PROVE FailsAlone(m)'
  <2>1. failing[m] # NoOrder => failing[m] \in Orders
    BY DEF FInv, TopUpTyped
  <2>2. ASSUME OneRuns, failing' = failing,
               (\E n \in Running : LockFree(n, o)) \/ Provider[o] # "stripe"
        PROVE  failing[m] # o
    <3>1. o # NoOrder
      BY SettingsAssumption
    <3> QED
      BY <2>2, <3>1, LockedOut DEF FInv, FailsAlone
  <2>3. CASE failing' = failing
    BY <1>5, <1>7, <2>1, <2>2, <2>3 DEF FInv, FailsAlone, OneRuns, Running, Turn
  <2>4. ASSUME NEW n \in Running, row' = row, failing' = [failing EXCEPT ![n] = o],
               Provider[o] = "stripe", row[o].status = "pending"
        PROVE  FailsAlone(m)'
    BY <2>4 DEF FInv, FailsAlone, OneRuns, Running, TopUpTyped
  <2> QED
    BY <1>7, <2>3, <2>4
<1> QED
  BY <1>5, <1>6, <1>8, TurnTaken

LEMMA ManualFinal ==
    ASSUME FInv, TopUpTyped', setting' = setting, NEW o \in Orders, NEW n \in Running,
           ManualComplete(n, o)
    PROVE  FInv' /\ \A q \in Orders : Keeps(q)
<1>1. /\ UNCHANGED <<checkout, gateway, notice, failing>> /\ LockFree(n, o)
      /\ row[o].status # "none" /\ budget.manual > 0
  BY DEF ManualComplete
<1>2. Manual > 0
  BY <1>1, SettingFacts DEF FInv, TopUpTyped
<1>3. row' = row \/ row' = [row EXCEPT ![o].status = "success"]
  BY DEF ManualComplete
<1>4. Turn(o) /\ row'[o].status \in {row[o].status, "success"}
  BY <1>1, <1>3 DEF Turn, FInv, TopUpTyped
<1>5. OpensLate(o)' /\ Keeps(o)
  BY <1>1, <1>2, <1>4, SettingFacts DEF FInv, OpensLate, Keeps, Manual, TopUpTyped
<1>6. ASSUME NEW m \in Nodes PROVE FailsAlone(m)'
  <2>1. failing[m] # NoOrder => failing[m] \in Orders
    BY DEF FInv, TopUpTyped
  <2>2. OneRuns => failing[m] # o
    BY <1>1, LockedOut
  <2> QED
    BY <1>1, <1>4, <2>1, <2>2 DEF FInv, FailsAlone, OneRuns, Running, Turn
<1> QED
  BY <1>4, <1>5, <1>6, TurnTaken

LEMMA SaveFinal ==
    ASSUME FInv, TopUpTyped', setting' = setting, NEW n \in Running,
           StripeFailedSaves(n) \/ Crash(n)
    PROVE  FInv' /\ \A q \in Orders : Keeps(q)
<1>0. PICK o \in Orders : o = failing[n]
  BY SettingFacts DEF FInv, TopUpTyped, StripeFailedSaves, Crash
<1>1. /\ n \in Nodes /\ Provider[o] = "stripe"
      /\ OneRuns => row[o].status = "pending"
      /\ UNCHANGED <<checkout, gateway>> /\ failing' = [failing EXCEPT ![n] = NoOrder]
  BY <1>0, SettingFacts DEF FInv, TopUpTyped, FailsAlone, StripeFailedSaves, Crash
<1>2. row' = row \/ row' = [row EXCEPT ![o].status = "failed"]
  BY <1>0 DEF StripeFailedSaves, Crash
<1>3. notice' = notice \/ notice' = [notice EXCEPT ![o] = "none"]
  BY <1>0 DEF StripeFailedSaves, Crash, Answered
<1>4. Turn(o) /\ (row'[o].status = row[o].status \/ row'[o].status = "failed")
  BY <1>1, <1>2, <1>3 DEF Turn, FInv, TopUpTyped
<1>5. notice'[o] = notice[o] \/ notice'[o] = "none"
  BY <1>1, <1>3 DEF FInv, TopUpTyped
<1>6. OpensLate(o)'
  BY <1>1, <1>4, <1>5 DEF FInv, OpensLate
<1>7. Keeps(o)
  BY <1>1 DEF Keeps
<1>8. ASSUME NEW m \in Nodes PROVE FailsAlone(m)'
  <2>1. failing[m] # NoOrder => failing[m] \in Orders
    BY DEF FInv, TopUpTyped
  <2>2. CASE m = n
    BY <1>1, <2>2 DEF FailsAlone, FInv, TopUpTyped
  <2>3. CASE m # n
    <3>1. failing'[m] = failing[m]
      BY <1>1, <2>3 DEF FInv, TopUpTyped
    <3>2. OneRuns => failing[m] = NoOrder
      BY <2>3, OnlyNode DEF FInv, FailsAlone, TopUpTyped
    <3> QED
      BY <3>1, <3>2 DEF FInv, FailsAlone, OneRuns, Running
  <2> QED
    BY <2>2, <2>3
<1> QED
  BY <1>4, <1>6, <1>7, <1>8, TurnTaken

LEMMA NextFinal ==
    ASSUME FInv, [Next]_vars PROVE FInv' /\ \A q \in Orders : Keeps(q)
<1>1. TopUpTyped' /\ setting' = setting
  BY NextTyped DEF FInv, Next, vars
<1>2. CASE Spend \/ UNCHANGED vars
  <2>1. UNCHANGED <<row, checkout, gateway, notice, failing>>
    BY <1>2 DEF Spend, vars
  <2>2. \A o \in Orders : OpensLate(o)' /\ Keeps(o)
    BY <1>1, <2>1 DEF FInv, OpensLate, Keeps, Manual
  <2>3. \A n \in Nodes : FailsAlone(n)'
    BY <1>1, <2>1 DEF FInv, FailsAlone, OneRuns, Running
  <2> QED
    BY <1>1, <2>2, <2>3 DEF FInv
<1> QED
  BY <1>1, <1>2, CheckoutFinal, LinkFinal, NoticeFinal, ManualFinal, SaveFinal DEF Next

LEMMA InitFinal == Init => FInv
<1> SUFFICES ASSUME Init PROVE FInv
  OBVIOUS
<1>1. TopUpTyped
  BY InitTyped
<1>2. \A o \in Orders : OpensLate(o)
  BY DEF Init, OpensLate
<1>3. \A n \in Nodes : FailsAlone(n)
  BY DEF Init, FailsAlone
<1> QED
  BY <1>1, <1>2, <1>3 DEF FInv

\* On one node no handler of a notice saves an older copy of an order over its
\* success (LockOrder): an order that was completed stays so, whatever notices,
\* failures, crashes and completions by hand come after.
THEOREM SuccessStays == Spec => SuccessIsFinal
<1>1. FInv /\ [Next]_vars => FInv'
  BY NextFinal
<1>2. FInv /\ [Next]_vars =>
         [\A o \in Orders :
            /\ Cardinality(Running) = 1
            /\ Manual > 0 => Provider[o] \notin {"waffo", "pancake"}
            /\ row[o].status = "success"
            => row'[o].status = "success"]_vars
  BY NextFinal DEF Keeps, OneRuns
<1> QED
  BY <1>1, <1>2, InitFinal, PTL DEF Spec, SuccessIsFinal

-----------------------------------------------------------------------------
(* Redemption codes and check-ins: types.                                  *)

Days == 0 .. LastDay

CodeType == [status : {"enabled", "disabled", "used", "deleted"},
             quota : Nat, expired : BOOLEAN]

RequestType == [at : {"idle", "redeem", "checkin", "award"},
                code : Codes \cup {"none"}, quota : Nat, day : Days]

HistType == [redeemed : [Codes -> Nat], awards : [Days -> Nat], lost : SUBSET Days]

GivenTyped ==
    /\ base \in Databases
    /\ code \in [Codes -> CodeType]
    /\ edit \in [Codes -> CodeType]
    /\ checkin \subseteq Days
    /\ today \in Days
    /\ req \in [Requests -> RequestType]
    /\ \A r \in Requests : req[r].at = "redeem" => req[r].code \in Codes
    /\ wallet \in Int
    /\ left \in [fault : Int, edit : Int]
    /\ hist \in HistType

LEMMA GivenFacts ==
    /\ Given!Days = Days /\ 0 \in Days /\ LastDay \in Nat
    /\ Award \in Nat /\ GivenCeiling \in Nat
    /\ Given!Idle \in RequestType /\ Given!NoCopy \in CodeType
    /\ Given!Idle.at = "idle" /\ Given!NoCopy.status = "deleted"
  BY GivenAssumption DEF Days, Given!Days, Given!Idle, Given!NoCopy, RequestType, CodeType

\* What a step does to the codes, to the copies an administrator works on and to
\* the count of redemptions.
CodesStay ==
    /\ UNCHANGED <<code, edit>>
    /\ hist'.redeemed = hist.redeemed /\ left'.edit = left.edit

Taken(c) ==
    /\ code[c].status = "enabled"
    /\ code' = [code EXCEPT ![c].status = "used"] /\ edit' = edit
    /\ hist'.redeemed = [hist.redeemed EXCEPT ![c] = @ + 1]
    /\ left'.edit = left.edit

CopyRead(c) ==
    /\ \E new \in CodeType : edit' = [edit EXCEPT ![c] = new]
    /\ code' = code /\ hist'.redeemed = hist.redeemed /\ left'.edit = left.edit - 1

CopyWritten(c) ==
    /\ code' = code \/ code' = [code EXCEPT ![c] = edit[c]]
    /\ edit' = [edit EXCEPT ![c] = Given!NoCopy]
    /\ hist'.redeemed = hist.redeemed /\ left'.edit = left.edit

Withdrawn ==
    /\ code' \in [Codes -> CodeType]
    /\ \A c \in Codes : code'[c].status \in {code[c].status, "deleted"}
    /\ edit' = edit /\ hist'.redeemed = hist.redeemed /\ left'.edit = left.edit

CodesEffect ==
    \/ CodesStay
    \/ \E c \in Codes : Taken(c) \/ CopyRead(c) \/ CopyWritten(c)
    \/ Withdrawn

\* What it does to the requests, the check-ins and the awards.
AwardsStay ==
    /\ checkin' = checkin /\ hist'.awards = hist.awards /\ hist'.lost = hist.lost

\* The wallet is credited with a code, which it has room for, or stays.
CodeCredit ==
    wallet' = wallet \/ \E n \in Nat : wallet <= GivenCeiling - n /\ wallet' = wallet + n

\* Request r moves on; only CheckinCreates leaves it between the row and the award.
Moves(r) ==
    /\ \E new \in RequestType :
          /\ req' = [req EXCEPT ![r] = new]
          /\ new.at # "award"
          /\ new.at = "redeem" => new.code \in Codes

DayAwarded(d) ==
    /\ hist'.awards = [hist.awards EXCEPT ![d] = @ + 1]
    /\ wallet' = wallet + Award /\ hist'.lost = hist.lost

CheckinEffect(r) ==
    LET d == req[r].day IN
    \/ Moves(r) /\ req[r].at # "award" /\ AwardsStay /\ CodeCredit
    \/ Moves(r) /\ req[r].at # "award" /\ d \notin checkin
                /\ checkin' = checkin \cup {d} /\ DayAwarded(d)
    \/ /\ req' = [req EXCEPT ![r].at = "award"] /\ req[r].at = "checkin"
       /\ d \notin checkin /\ checkin' = checkin \cup {d}
       /\ wallet' = wallet /\ hist'.awards = hist.awards /\ hist'.lost = hist.lost
    \/ Moves(r) /\ req[r].at = "award" /\ checkin' = checkin /\ DayAwarded(d)
    \/ /\ Moves(r) /\ req[r].at = "award"
       /\ wallet' = wallet /\ hist'.awards = hist.awards
       /\ \/ checkin' = checkin \ {d} /\ hist'.lost = hist.lost
          \/ checkin' = checkin /\ hist'.lost = hist.lost \cup {d}

Accounted(r) ==
    /\ CodesEffect /\ CheckinEffect(r)
    /\ left' \in [fault : Int, edit : Int] /\ hist' \in HistType /\ today' = today

LEMMA RequestEffect ==
    ASSUME GivenTyped, NEW r \in Requests, Given!Request(r) PROVE Accounted(r)
<1> USE GivenFacts
<1>1. ASSUME NEW c \in Codes, Given!RedeemReads(r, c) PROVE Accounted(r)
  <2>1. [at |-> "redeem", code |-> c, quota |-> code[c].quota, day |-> 0] \in RequestType
    BY DEF GivenTyped, CodeType, RequestType
  <2>2. Moves(r) /\ req[r].at # "award" /\ AwardsStay /\ CodeCredit
    BY <1>1, <2>1 DEF Given!RedeemReads, Moves, AwardsStay, CodeCredit
  <2> QED
    BY <1>1, <2>2 DEF Given!RedeemReads, CheckinEffect, CodesEffect, CodesStay, GivenTyped,
                          Accounted
<1>2. ASSUME Given!RedeemTakes(r) PROVE Accounted(r)
  <2> DEFINE c == req[r].code
             n == req[r].quota
  <2>1. c \in Codes /\ n \in Nat /\ req[r].at # "award" /\ Moves(r)
        /\ today' = today /\ checkin' = checkin /\ edit' = edit
    BY <1>2 DEF Given!RedeemTakes, GivenTyped, RequestType, Moves
  <2>2. CASE /\ Given!Takeable(c) /\ Given!Fits(n)
             /\ code' = [code EXCEPT ![c].status = "used"]
             /\ wallet' = wallet + n
             /\ hist' = [hist EXCEPT !.redeemed[c] = @ + 1]
             /\ left' = left
    <3>1. hist'.redeemed = [hist.redeemed EXCEPT ![c] = @ + 1]
      BY <2>2 DEF GivenTyped, HistType
    <3>2. hist'.awards = hist.awards /\ hist'.lost = hist.lost /\ hist' \in HistType
      BY <2>1, <2>2 DEF GivenTyped, HistType
    <3>3. Taken(c)
      BY <2>1, <2>2, <3>1 DEF Taken, Given!Takeable
    <3>4. AwardsStay /\ CodeCredit
      BY <2>1, <2>2, <3>2 DEF AwardsStay, CodeCredit, Given!Fits
    <3> QED
      BY <2>1, <2>2, <3>2, <3>3, <3>4 DEF CodesEffect, CheckinEffect, GivenTyped, Accounted
  <2>3. CASE UNCHANGED <<code, wallet, hist>> /\ (left' = left \/ Given!Fault)
    <3>1. left' \in [fault : Int, edit : Int] /\ left'.edit = left.edit
      BY <2>3 DEF Given!Fault, GivenTyped
    <3> QED
      BY <2>1, <2>3, <3>1 DEF CodesEffect, CodesStay, CheckinEffect, AwardsStay, CodeCredit,
                              GivenTyped, Accounted
  <2> QED
    BY <1>2, <2>2, <2>3 DEF Given!RedeemTakes
<1>3. ASSUME Given!CheckinReads(r) PROVE Accounted(r)
  <2> DEFINE new == [Given!Idle EXCEPT !.at = "checkin", !.day = today]
  <2>1. today \in Days
    BY DEF GivenTyped
  <2>2. new \in RequestType
    BY <2>1 DEF RequestType, Given!Idle
  <2>3. new.at = "checkin"
    BY DEF Given!Idle
  <2>4. Moves(r)
    BY <1>3, <2>2, <2>3 DEF Given!CheckinReads, Moves
  <2>5. req[r].at # "award" /\ AwardsStay /\ CodeCredit
    BY <1>3 DEF Given!CheckinReads, AwardsStay, CodeCredit
  <2> QED
    BY <1>3, <2>4, <2>5 DEF Given!CheckinReads, CheckinEffect, CodesEffect, CodesStay, GivenTyped,
                      Accounted
<1>4. ASSUME req' = [req EXCEPT ![r] = Given!Idle] PROVE Moves(r)
  BY <1>4 DEF Moves
<1>5. ASSUME Given!Fault PROVE left' \in [fault : Int, edit : Int] /\ left'.edit = left.edit
  BY <1>5 DEF Given!Fault, GivenTyped
<1>6. ASSUME NEW d \in Days, Given!Awarded(d)
      PROVE  DayAwarded(d) /\ hist' \in HistType /\ hist'.redeemed = hist.redeemed
  <2>1. hist' = [hist EXCEPT !.awards[d] = @ + 1] /\ wallet' = wallet + Award
    BY <1>6 DEF Given!Awarded
  <2>2. hist'.awards = [hist.awards EXCEPT ![d] = @ + 1]
    BY <2>1 DEF GivenTyped, HistType
  <2> QED
    BY <2>1, <2>2 DEF DayAwarded, GivenTyped, HistType
<1>7. ASSUME NEW d \in Days, hist' = [hist EXCEPT !.lost = @ \cup {d}]
      PROVE  /\ hist' \in HistType /\ hist'.redeemed = hist.redeemed
             /\ hist'.awards = hist.awards /\ hist'.lost = hist.lost \cup {d}
  BY <1>7 DEF GivenTyped, HistType
<1>8. req[r].day \in Days
  BY DEF GivenTyped, RequestType
<1>9. ASSUME Given!CheckinInTransaction(r) PROVE Accounted(r)
  <2>1. /\ req[r].at # "award" /\ Moves(r) /\ UNCHANGED <<code, edit, today>>
    BY <1>4, <1>9 DEF Given!CheckinInTransaction
  <2>2. CASE /\ req[r].day \notin checkin /\ checkin' = checkin \cup {req[r].day}
             /\ Given!Awarded(req[r].day) /\ left' = left
    BY <1>6, <1>8, <2>1, <2>2 DEF CheckinEffect, CodesEffect, CodesStay, GivenTyped, Accounted
  <2>3. CASE UNCHANGED <<checkin, wallet, hist>> /\ (left' = left \/ Given!Fault)
    BY <1>5, <2>1, <2>3 DEF CheckinEffect, CodesEffect, CodesStay, GivenTyped, Accounted,
                            AwardsStay, CodeCredit
  <2> QED
    BY <1>9, <2>2, <2>3 DEF Given!CheckinInTransaction, Given!Creatable
<1>10. ASSUME Given!CheckinCreates(r) PROVE Accounted(r)
  <2>1. /\ req[r].at = "checkin" /\ UNCHANGED <<code, edit, today, wallet, hist>>
    BY <1>10 DEF Given!CheckinCreates
  <2>2. CASE /\ req[r].day \notin checkin /\ checkin' = checkin \cup {req[r].day}
             /\ req' = [req EXCEPT ![r].at = "award"] /\ left' = left
    BY <2>1, <2>2 DEF CheckinEffect, CodesEffect, CodesStay, GivenTyped, Accounted
  <2>3. CASE /\ checkin' = checkin /\ req' = [req EXCEPT ![r] = Given!Idle]
             /\ (left' = left \/ Given!Fault)
    BY <1>4, <1>5, <2>1, <2>3 DEF CheckinEffect, CodesEffect, CodesStay, GivenTyped,
                                  Accounted, AwardsStay, CodeCredit
  <2> QED
    BY <1>10, <2>2, <2>3 DEF Given!CheckinCreates, Given!Creatable
<1>11. ASSUME Given!CheckinAwards(r) PROVE Accounted(r)
  <2>1. req[r].at = "award" /\ Moves(r) /\ UNCHANGED <<code, edit, today>>
    BY <1>4, <1>11 DEF Given!CheckinAwards
  <2>2. CASE Given!Awarded(req[r].day) /\ checkin' = checkin /\ left' = left
    BY <1>6, <1>8, <2>1, <2>2 DEF CheckinEffect, CodesEffect, CodesStay, GivenTyped, Accounted
  <2>3. CASE /\ Given!Fault /\ checkin' = checkin \ {req[r].day}
             /\ UNCHANGED <<wallet, hist>>
    BY <1>5, <2>1, <2>3 DEF CheckinEffect, CodesEffect, CodesStay, GivenTyped, Accounted
  <2>4. CASE /\ left' = [left EXCEPT !.fault = @ - 2]
             /\ hist' = [hist EXCEPT !.lost = @ \cup {req[r].day}]
             /\ UNCHANGED <<checkin, wallet>>
    <3>1. left' \in [fault : Int, edit : Int] /\ left'.edit = left.edit
      BY <2>4 DEF GivenTyped
    <3> QED
      BY <1>7, <1>8, <2>1, <2>4, <3>1
      DEF CheckinEffect, CodesEffect, CodesStay, GivenTyped, Accounted
  <2> QED
    BY <1>11, <2>2, <2>3, <2>4 DEF Given!CheckinAwards, Given!TakesBack
<1>12. ASSUME Given!Crash(r) PROVE Accounted(r)
  <2>1. Given!Fault /\ Moves(r) /\ UNCHANGED <<code, edit, checkin, today, wallet>>
    BY <1>4, <1>12 DEF Given!Crash
  <2>2. CASE req[r].at = "award"
    <3>1. hist' = [hist EXCEPT !.lost = @ \cup {req[r].day}]
      BY <1>12, <2>2 DEF Given!Crash
    <3> QED
      BY <1>5, <1>7, <1>8, <2>1, <2>2, <3>1
      DEF CheckinEffect, CodesEffect, CodesStay, GivenTyped, Accounted
  <2>3. CASE req[r].at # "award"
    <3>1. hist' = hist
      BY <1>12, <2>3 DEF Given!Crash
    <3> QED
      BY <1>5, <2>1, <2>3, <3>1
      DEF CheckinEffect, CodesEffect, CodesStay, GivenTyped, Accounted, AwardsStay, CodeCredit
  <2> QED
    BY <2>2, <2>3
<1> QED
  BY <1>1, <1>2, <1>3, <1>9, <1>10, <1>11, <1>12 DEF Given!Request

\* Steps of an administrator, and the calendar, touch no request and no award.
Elsewhere ==
    /\ CodesEffect /\ req' = req /\ AwardsStay /\ wallet' = wallet
    /\ left' \in [fault : Int, edit : Int] /\ hist' \in HistType /\ today' \in Days

LEMMA AdminEffect ==
    ASSUME GivenTyped,
           (\E c \in Codes : Given!Admin(c)) \/ Given!DeleteInvalid \/ Given!Midnight
    PROVE  Elsewhere
<1> USE GivenFacts
<1>1. ASSUME NEW c \in Codes, NEW new \in CodeType, Given!EditReads(c, new) PROVE Elsewhere
  <2>1. /\ left' = [left EXCEPT !.edit = @ - 1] /\ edit' = [edit EXCEPT ![c] = new]
        /\ UNCHANGED <<code, checkin, today, req, wallet, hist>>
    BY <1>1 DEF Given!EditReads
  <2>2. left' \in [fault : Int, edit : Int] /\ left'.edit = left.edit - 1
    BY <2>1 DEF GivenTyped
  <2>3. CopyRead(c)
    BY <2>1, <2>2 DEF CopyRead
  <2> QED
    BY <2>1, <2>2, <2>3 DEF CodesEffect, Elsewhere, AwardsStay, GivenTyped
<1>2. ASSUME NEW c \in Codes, Given!EditWrites(c) PROVE Elsewhere
  BY <1>2 DEF Given!EditWrites, CopyWritten, CodesEffect, Elsewhere, AwardsStay, GivenTyped
<1>3. ASSUME NEW c \in Codes, Given!DeleteCode(c) \/ Given!Expire(c) PROVE Elsewhere
  <2>1. /\ UNCHANGED <<edit, checkin, today, req, wallet, left, hist>>
        /\ \/ code' = [code EXCEPT ![c].status = "deleted"]
           \/ code' = [code EXCEPT ![c].expired = TRUE]
    BY <1>3 DEF Given!DeleteCode, Given!Expire
  <2>2. code' \in [Codes -> CodeType]
    <3>1. /\ [code[c] EXCEPT !.status = "deleted"] \in CodeType
          /\ [code[c] EXCEPT !.expired = TRUE] \in CodeType
      BY DEF GivenTyped, CodeType
    <3> QED
      BY <2>1, <3>1 DEF GivenTyped
  <2>3. \A q \in Codes : code'[q].status \in {code[q].status, "deleted"}
    BY <2>1 DEF GivenTyped, CodeType
  <2> QED
    BY <2>1, <2>2, <2>3 DEF Withdrawn, CodesEffect, Elsewhere, AwardsStay, GivenTyped
<1>4. ASSUME Given!DeleteInvalid PROVE Elsewhere
  <2>1. UNCHANGED <<edit, checkin, today, req, wallet, left, hist>>
    BY <1>4 DEF Given!DeleteInvalid
  <2>2. ASSUME NEW q \in Codes
        PROVE  /\ [code[q] EXCEPT !.status = "deleted"] \in CodeType
               /\ [code[q] EXCEPT !.status = "deleted"].status = "deleted"
               /\ code[q] \in CodeType
    BY DEF GivenTyped, CodeType
  <2>3. \A q \in Codes : code'[q] = code[q] \/ code'[q] = [code[q] EXCEPT !.status = "deleted"]
    BY <1>4 DEF Given!DeleteInvalid
  <2>4. code' \in [Codes -> CodeType]
    BY <1>4, <2>2 DEF Given!DeleteInvalid
  <2>5. \A q \in Codes : code'[q].status \in {code[q].status, "deleted"}
    BY <2>2, <2>3
  <2> QED
    BY <2>1, <2>4, <2>5 DEF Withdrawn, CodesEffect, Elsewhere, AwardsStay, GivenTyped
<1>5. ASSUME Given!Midnight PROVE Elsewhere
  BY <1>5 DEF Given!Midnight, CodesStay, CodesEffect, Elsewhere, AwardsStay, GivenTyped, Days
<1>6. [status : {"enabled", "disabled", "used"}, quota : Quotas, expired : BOOLEAN]
         \subseteq CodeType
  BY GivenAssumption DEF CodeType
<1> QED
  BY <1>1, <1>2, <1>3, <1>4, <1>5, <1>6 DEF Given!Admin

-----------------------------------------------------------------------------
(* A code that can be taken, or that an edit may make takeable again, has  *)
(* not used up what it may credit.                                         *)

Live(c) == IF code[c].status = "enabled" THEN 1 ELSE 0
Copied(c) == IF edit[c].status = "enabled" THEN 1 ELSE 0

CodeOK(c) == hist.redeemed[c] + Live(c) + Copied(c) <= 1 + (base.edits - left.edit)

AwardedDays == {d \in Days : hist.awards[d] = 1}

DayOK(d) ==
    /\ hist.awards[d] \in {0, 1}
    /\ hist.awards[d] = 1 => d \in checkin
    /\ d \in checkin => \/ hist.awards[d] = 1
                        \/ d \in hist.lost
                        \/ \E r \in Requests : req[r].at = "award" /\ req[r].day = d

\* A request between the row and the award has the day to itself.
AwardOK(r) ==
    req[r].at = "award" =>
       /\ req[r].day \in checkin /\ hist.awards[req[r].day] = 0
       /\ \A q \in Requests : req[q].at = "award" /\ req[q].day = req[r].day => q = r

GInv ==
    /\ GivenTyped
    /\ \A c \in Codes : CodeOK(c)
    /\ \A d \in Days : DayOK(d)
    /\ \A r \in Requests : AwardOK(r)
    /\ wallet <= GivenCeiling + Award * Cardinality(AwardedDays)

LEMMA CodesKept ==
    ASSUME GInv, CodesEffect, base' = base, left' \in [fault : Int, edit : Int],
           hist' \in HistType
    PROVE  /\ code' \in [Codes -> CodeType] /\ edit' \in [Codes -> CodeType]
           /\ \A c \in Codes : CodeOK(c)'
<1>1. /\ base.edits \in Int /\ left.edit \in Int /\ left'.edit \in Int
      /\ code \in [Codes -> CodeType] /\ edit \in [Codes -> CodeType]
      /\ hist.redeemed \in [Codes -> Nat] /\ hist'.redeemed \in [Codes -> Nat]
      /\ \A c \in Codes : CodeOK(c)
  BY GivenAssumption DEF GInv, GivenTyped, HistType
<1>2. CASE CodesStay
  BY <1>1, <1>2 DEF CodesStay, CodeOK, Live, Copied
<1>3. ASSUME NEW c \in Codes, Taken(c)
      PROVE  /\ code' \in [Codes -> CodeType] /\ edit' \in [Codes -> CodeType]
             /\ \A q \in Codes : CodeOK(q)'
  <2>1. code' \in [Codes -> CodeType] /\ edit' = edit
    BY <1>1, <1>3 DEF Taken, CodeType
  <2>2. code[c].status = "enabled" /\ code'[c].status = "used"
    BY <1>1, <1>3 DEF Taken, CodeType
  <2>3. CodeOK(c)'
    BY <1>1, <1>3, <2>1, <2>2 DEF Taken, CodeOK, Live, Copied
  <2>4. \A q \in Codes \ {c} : CodeOK(q)'
    BY <1>1, <1>3, <2>1 DEF Taken, CodeOK, Live, Copied
  <2> QED
    BY <1>1, <2>1, <2>3, <2>4
<1>4. ASSUME NEW c \in Codes, CopyRead(c)
      PROVE  /\ code' \in [Codes -> CodeType] /\ edit' \in [Codes -> CodeType]
             /\ \A q \in Codes : CodeOK(q)'
  <2>1. edit' \in [Codes -> CodeType] /\ code' = code
    BY <1>1, <1>4 DEF CopyRead
  <2>2. \A q \in Codes \ {c} : edit'[q] = edit[q]
    BY <1>1, <1>4 DEF CopyRead
  <2>3. Copied(c)' \in {0, 1} /\ \A q \in Codes : Copied(q) \in {0, 1} /\ Live(q) \in {0, 1}
    BY DEF Copied, Live
  <2>4. ASSUME NEW q \in Codes PROVE CodeOK(q)'
    <3>1. Live(q)' = Live(q) /\ Copied(q)' <= Copied(q) + 1 /\ Copied(q)' \in {0, 1}
      BY <2>1, <2>2, <2>3 DEF Live, Copied
    <3> QED
      BY <1>1, <1>4, <2>3, <3>1 DEF CopyRead, CodeOK
  <2> QED
    BY <1>1, <2>1, <2>4
<1>5. ASSUME NEW c \in Codes, CopyWritten(c)
      PROVE  /\ code' \in [Codes -> CodeType] /\ edit' \in [Codes -> CodeType]
             /\ \A q \in Codes : CodeOK(q)'
  <2>1. code' \in [Codes -> CodeType] /\ edit' \in [Codes -> CodeType]
    BY <1>1, <1>5, GivenFacts DEF CopyWritten
  <2>2. edit'[c].status = "deleted" /\ code'[c].status \in {code[c].status, edit[c].status}
    BY <1>1, <1>5, GivenFacts DEF CopyWritten
  <2>3. CodeOK(c)'
    BY <1>1, <1>5, <2>2 DEF CopyWritten, CodeOK, Live, Copied
  <2>4. \A q \in Codes \ {c} : CodeOK(q)'
    BY <1>1, <1>5 DEF CopyWritten, CodeOK, Live, Copied
  <2> QED
    BY <2>1, <2>3, <2>4
<1>6. CASE Withdrawn
  <2>1. ASSUME NEW q \in Codes PROVE CodeOK(q)'
    BY <1>1, <1>6 DEF Withdrawn, CodeOK, Live, Copied
  <2> QED
    BY <1>1, <1>6, <2>1 DEF Withdrawn
<1> QED
  BY <1>1, <1>2, <1>3, <1>4, <1>5, <1>6 DEF CodesEffect, CodesStay

-----------------------------------------------------------------------------
(* Check-ins.                                                              *)

\* The wallet grows by a code it has room for, or by the award of one more day.
LEMMA WalletKept ==
    ASSUME GInv, NEW x \in Int,
           \/ x = wallet
           \/ \E n \in Nat : wallet <= GivenCeiling - n /\ x = wallet + n
    PROVE  x <= GivenCeiling + Award * Cardinality(AwardedDays)
<1>1. IsFiniteSet(AwardedDays)
  <2>1. IsFiniteSet(Days)
    BY GivenFacts, FS_Interval DEF Days
  <2> QED
    BY <2>1, FS_Subset DEF AwardedDays
<1>2. Cardinality(AwardedDays) \in Nat
  BY <1>1, FS_CardinalityType
<1>3. Award * Cardinality(AwardedDays) \in Nat
  BY <1>2, GivenFacts
<1> QED
  BY <1>3, GivenFacts DEF GInv, GivenTyped

LEMMA WalletAwarded ==
    ASSUME GInv, NEW d \in Days, DayAwarded(d), hist.awards[d] = 0, hist' \in HistType
    PROVE  wallet' <= GivenCeiling + Award * Cardinality(AwardedDays')
<1>1. IsFiniteSet(AwardedDays)
  <2>1. IsFiniteSet(Days)
    BY GivenFacts, FS_Interval DEF Days
  <2> QED
    BY <2>1, FS_Subset DEF AwardedDays
<1>2. AwardedDays' = AwardedDays \cup {d} /\ d \notin AwardedDays
  BY DEF GInv, GivenTyped, HistType, DayAwarded, AwardedDays
<1>3. /\ Cardinality(AwardedDays) \in Nat
      /\ Cardinality(AwardedDays') = Cardinality(AwardedDays) + 1
  BY <1>1, <1>2, FS_CardinalityType, FS_AddElement
<1>4. ASSUME NEW a \in Nat, NEW n \in Nat PROVE a * (n + 1) = a * n + a /\ a * n \in Nat
  BY <1>4
<1>5. /\ Award * Cardinality(AwardedDays') = Award * Cardinality(AwardedDays) + Award
      /\ Award * Cardinality(AwardedDays) \in Nat
  BY <1>3, <1>4, GivenFacts
<1> QED
  BY <1>5, GivenFacts DEF GInv, GivenTyped, DayAwarded

\* Request r leaves its place, not for the award; the days are as they were.
LEMMA MovedOn ==
    ASSUME GInv, NEW r \in Requests, Moves(r)
    PROVE  /\ req' \in [Requests -> RequestType]
           /\ \A q \in Requests : req'[q].at = "redeem" => req'[q].code \in Codes
           /\ req'[r].at # "award"
           /\ \A q \in Requests \ {r} : req'[q] = req[q]
  BY DEF GInv, GivenTyped, Moves

LEMMA AwardsKept ==
    ASSUME GInv, NEW r \in Requests, Moves(r), req[r].at # "award", AwardsStay, CodeCredit
    PROVE  /\ \A d \in Days : DayOK(d)'
           /\ \A q \in Requests : AwardOK(q)'
           /\ wallet' \in Int /\ wallet' <= GivenCeiling + Award * Cardinality(AwardedDays')
<1>1. wallet' \in Int /\ AwardedDays' = AwardedDays
  BY DEF CodeCredit, GInv, GivenTyped, AwardsStay, AwardedDays
<1>2. wallet' <= GivenCeiling + Award * Cardinality(AwardedDays')
  BY <1>1, WalletKept DEF CodeCredit
<1>3. \A d \in Days : DayOK(d)'
  BY MovedOn DEF GInv, DayOK, AwardsStay
<1>4. \A q \in Requests : AwardOK(q)'
  BY MovedOn DEF GInv, AwardOK, AwardsStay
<1> QED
  BY <1>1, <1>2, <1>3, <1>4

LEMMA AwardedAtOnce ==
    ASSUME GInv, hist' \in HistType, NEW r \in Requests, Moves(r), req[r].at # "award",
           req[r].day \notin checkin, checkin' = checkin \cup {req[r].day},
           DayAwarded(req[r].day)
    PROVE  /\ \A d \in Days : DayOK(d)'
           /\ \A q \in Requests : AwardOK(q)'
           /\ wallet' \in Int /\ wallet' <= GivenCeiling + Award * Cardinality(AwardedDays')
<1> DEFINE e == req[r].day
<1>1. e \in Days /\ hist.awards \in [Days -> Nat]
  BY DEF GInv, GivenTyped, RequestType, HistType
<1>2. hist.awards[e] = 0
  BY <1>1 DEF GInv, DayOK
<1>3. hist'.awards[e] = 1 /\ \A d \in Days \ {e} : hist'.awards[d] = hist.awards[d]
  BY <1>1, <1>2 DEF DayAwarded
<1>4. wallet' \in Int /\ wallet' <= GivenCeiling + Award * Cardinality(AwardedDays')
  BY <1>1, <1>2, GivenFacts, WalletAwarded DEF DayAwarded, GInv, GivenTyped
<1>5. ASSUME NEW d \in Days PROVE DayOK(d)'
  BY <1>3, MovedOn DEF GInv, DayOK, DayAwarded
<1>6. ASSUME NEW q \in Requests PROVE AwardOK(q)'
  <2>1. req'[q].at = "award" => q # r /\ req'[q] = req[q] /\ req[q].day # e /\ req[q].day \in Days
    BY MovedOn DEF GInv, AwardOK, GivenTyped, RequestType
  <2> QED
    BY <1>3, <2>1, MovedOn DEF GInv, AwardOK
<1> QED
  BY <1>4, <1>5, <1>6

LEMMA RowCreated ==
    ASSUME GInv, NEW r \in Requests, req' = [req EXCEPT ![r].at = "award"],
           req[r].day \notin checkin, checkin' = checkin \cup {req[r].day},
           wallet' = wallet, hist'.awards = hist.awards, hist'.lost = hist.lost
    PROVE  /\ \A d \in Days : DayOK(d)'
           /\ \A q \in Requests : AwardOK(q)'
           /\ wallet' \in Int /\ wallet' <= GivenCeiling + Award * Cardinality(AwardedDays')
           /\ req' \in [Requests -> RequestType]
           /\ \A q \in Requests : req'[q].at = "redeem" => req'[q].code \in Codes
<1> DEFINE e == req[r].day
<1>1. /\ req'[r] = [req[r] EXCEPT !.at = "award"]
      /\ \A q \in Requests \ {r} : req'[q] = req[q]
  BY DEF GInv, GivenTyped
<1>2. req'[r].at = "award" /\ req'[r].day = e /\ req'[r] \in RequestType
  BY <1>1 DEF GInv, GivenTyped, RequestType
<1>3. /\ req' \in [Requests -> RequestType]
      /\ \A q \in Requests : req'[q].at = "redeem" => req'[q].code \in Codes
  BY <1>1, <1>2 DEF GInv, GivenTyped
<1>4. e \in Days
  BY DEF GInv, GivenTyped, RequestType
<1>5. hist.awards[e] = 0
  BY <1>4 DEF GInv, DayOK
<1>6. ASSUME NEW d \in Days PROVE DayOK(d)'
  BY <1>1, <1>2 DEF GInv, DayOK
<1>7. ASSUME NEW q \in Requests PROVE AwardOK(q)'
  BY <1>1, <1>2, <1>5 DEF GInv, AwardOK
<1>8. AwardedDays' = AwardedDays
  BY DEF AwardedDays
<1> QED
  BY <1>3, <1>6, <1>7, <1>8 DEF GInv, GivenTyped

LEMMA AwardedLater ==
    ASSUME GInv, hist' \in HistType, NEW r \in Requests, Moves(r), req[r].at = "award",
           checkin' = checkin, DayAwarded(req[r].day)
    PROVE  /\ \A d \in Days : DayOK(d)'
           /\ \A q \in Requests : AwardOK(q)'
           /\ wallet' \in Int /\ wallet' <= GivenCeiling + Award * Cardinality(AwardedDays')
<1> DEFINE e == req[r].day
<1>1. e \in Days /\ hist.awards \in [Days -> Nat]
  BY DEF GInv, GivenTyped, RequestType, HistType
<1>2. hist.awards[e] = 0 /\ e \in checkin
  BY DEF GInv, AwardOK
<1>3. hist'.awards[e] = 1 /\ \A d \in Days \ {e} : hist'.awards[d] = hist.awards[d]
  BY <1>1, <1>2 DEF DayAwarded
<1>4. wallet' \in Int /\ wallet' <= GivenCeiling + Award * Cardinality(AwardedDays')
  BY <1>1, <1>2, GivenFacts, WalletAwarded DEF DayAwarded, GInv, GivenTyped
<1>5. ASSUME NEW d \in Days PROVE DayOK(d)'
  BY <1>2, <1>3, MovedOn DEF GInv, DayOK, DayAwarded
<1>6. ASSUME NEW q \in Requests PROVE AwardOK(q)'
  <2>1. req'[q].at = "award" => q # r /\ req'[q] = req[q] /\ req[q].day # e /\ req[q].day \in Days
    BY MovedOn DEF GInv, AwardOK, GivenTyped, RequestType
  <2> QED
    BY <1>3, <2>1, MovedOn DEF GInv, AwardOK
<1> QED
  BY <1>4, <1>5, <1>6

LEMMA AwardLost ==
    ASSUME GInv, NEW r \in Requests, Moves(r), req[r].at = "award",
           wallet' = wallet, hist'.awards = hist.awards,
           \/ checkin' = checkin \ {req[r].day} /\ hist'.lost = hist.lost
           \/ checkin' = checkin /\ hist'.lost = hist.lost \cup {req[r].day}
    PROVE  /\ \A d \in Days : DayOK(d)'
           /\ \A q \in Requests : AwardOK(q)'
           /\ wallet' \in Int /\ wallet' <= GivenCeiling + Award * Cardinality(AwardedDays')
<1> DEFINE e == req[r].day
<1>1. hist.awards[e] = 0
  BY DEF GInv, AwardOK
<1>2. ASSUME NEW d \in Days PROVE DayOK(d)'
  BY <1>1, MovedOn DEF GInv, DayOK
<1>3. ASSUME NEW q \in Requests PROVE AwardOK(q)'
  <2>1. req'[q].at = "award" => q # r /\ req'[q] = req[q] /\ req[q].day # e
    BY MovedOn DEF GInv, AwardOK
  <2> QED
    BY <2>1, MovedOn DEF GInv, AwardOK
<1>4. AwardedDays' = AwardedDays
  BY DEF AwardedDays
<1> QED
  BY <1>2, <1>3, <1>4 DEF GInv, GivenTyped

LEMMA CheckinKept ==
    ASSUME GInv, hist' \in HistType, NEW r \in Requests, CheckinEffect(r)
    PROVE  /\ \A d \in Days : DayOK(d)'
           /\ \A q \in Requests : AwardOK(q)'
           /\ wallet' \in Int /\ wallet' <= GivenCeiling + Award * Cardinality(AwardedDays')
           /\ req' \in [Requests -> RequestType]
           /\ \A q \in Requests : req'[q].at = "redeem" => req'[q].code \in Codes
           /\ checkin' \subseteq Days
<1>1. req[r].day \in Days /\ checkin \subseteq Days
  BY DEF GInv, GivenTyped, RequestType
<1>2. checkin' \subseteq Days
  BY <1>1 DEF CheckinEffect, AwardsStay
<1> QED
  BY <1>2, MovedOn, AwardsKept, AwardedAtOnce, RowCreated, AwardedLater, AwardLost
  DEF CheckinEffect

LEMMA GivenStep ==
    ASSUME GInv, [Given!Next]_givenVars PROVE GInv'
<1>1. ASSUME NEW r \in Requests, Given!Request(r), base' = base PROVE GInv'
  <2>1. Accounted(r)
    BY <1>1, RequestEffect DEF GInv
  <2>2. /\ code' \in [Codes -> CodeType] /\ edit' \in [Codes -> CodeType]
        /\ \A c \in Codes : CodeOK(c)'
    BY <1>1, <2>1, CodesKept DEF Accounted
  <2>3. /\ \A d \in Days : DayOK(d)'
        /\ \A q \in Requests : AwardOK(q)'
        /\ wallet' \in Int /\ wallet' <= GivenCeiling + Award * Cardinality(AwardedDays')
        /\ req' \in [Requests -> RequestType]
        /\ \A q \in Requests : req'[q].at = "redeem" => req'[q].code \in Codes
        /\ checkin' \subseteq Days
    BY <2>1, CheckinKept DEF Accounted
  <2> QED
    BY <1>1, <2>1, <2>2, <2>3 DEF GInv, GivenTyped, Accounted
<1>2. ASSUME Elsewhere, base' = base PROVE GInv'
  <2>1. /\ code' \in [Codes -> CodeType] /\ edit' \in [Codes -> CodeType]
        /\ \A c \in Codes : CodeOK(c)'
    BY <1>2, CodesKept DEF Elsewhere
  <2>2. /\ req' = req /\ wallet' = wallet /\ checkin' = checkin
        /\ hist'.awards = hist.awards /\ hist'.lost = hist.lost
    BY <1>2 DEF Elsewhere, AwardsStay
  <2>3. /\ \A d \in Days : DayOK(d)'
        /\ \A q \in Requests : AwardOK(q)'
    BY <2>2 DEF GInv, DayOK, AwardOK
  <2>4. wallet' <= GivenCeiling + Award * Cardinality(AwardedDays')
    BY <2>2 DEF GInv, AwardedDays
  <2> QED
    BY <1>2, <2>1, <2>2, <2>3, <2>4 DEF GInv, GivenTyped, Elsewhere
<1>3. CASE UNCHANGED givenVars
  BY <1>3 DEF givenVars, GInv, GivenTyped, CodeOK, Live, Copied, DayOK, AwardOK, AwardedDays
<1> QED
  BY <1>1, <1>2, <1>3, AdminEffect DEF Given!Next, GInv

LEMMA GivenInit == Given!Init => GInv
<1> SUFFICES ASSUME Given!Init PROVE GInv
  OBVIOUS
<1>1. /\ base \in Databases /\ base.edits \in Nat /\ base.faults \in Nat
      /\ left = [fault |-> base.faults, edit |-> base.edits]
  BY GivenAssumption DEF Given!Init, Given!FaultBudget, Given!Edits
<1>2. /\ hist = [redeemed |-> [c \in Codes |-> 0], awards |-> [d \in Days |-> 0], lost |-> {}]
      /\ req = [r \in Requests |-> Given!Idle] /\ edit = [c \in Codes |-> Given!NoCopy]
      /\ checkin = {} /\ today = 0 /\ wallet = 0
      /\ \A c \in Codes : code[c].status = "enabled"
  BY GivenFacts DEF Given!Init
<1>3. code \in [Codes -> CodeType]
  BY GivenAssumption DEF Given!Init, CodeType
<1>4. hist \in HistType
  BY <1>2 DEF HistType
<1>5. left \in [fault : Int, edit : Int]
  BY <1>1
<1>6. GivenTyped
  BY <1>1, <1>2, <1>3, <1>4, <1>5, GivenFacts DEF GivenTyped
<1>7. \A c \in Codes : CodeOK(c)
  BY <1>1, <1>2, GivenFacts DEF CodeOK, Live, Copied
<1>8. /\ \A d \in Days : DayOK(d)
      /\ \A r \in Requests : AwardOK(r)
  BY <1>2, GivenFacts DEF DayOK, AwardOK
<1>9. AwardedDays = {} /\ Cardinality({}) = 0
  BY <1>2, FS_EmptySet DEF AwardedDays
<1>10. wallet <= GivenCeiling + Award * Cardinality(AwardedDays)
  BY <1>2, <1>9, GivenFacts
<1> QED
  BY <1>6, <1>7, <1>8, <1>10 DEF GInv

LEMMA GivenHolds == GInv => GivenOnce
<1> SUFFICES ASSUME GInv PROVE GivenOnce
  OBVIOUS
<1>1. Given!AwardedOnce
  BY GivenFacts DEF GInv, DayOK, Given!AwardedOnce
<1>2. Given!CheckedInMeansAwarded
  BY DEF GInv, GivenTyped, DayOK, Given!CheckedInMeansAwarded
<1>3. \A c \in Codes : hist.redeemed[c] <= 1 + (Given!Edits - left.edit)
  <2>1. base.edits \in Int /\ left.edit \in Int /\ hist.redeemed \in [Codes -> Nat]
    BY GivenAssumption DEF GInv, GivenTyped, HistType
  <2> QED
    BY <2>1 DEF GInv, CodeOK, Live, Copied, Given!Edits
<1>4. wallet <= GivenCeiling + Award * (LastDay + 1)
  <2>1. IsFiniteSet(Days) /\ Cardinality(Days) = LastDay + 1
    BY GivenFacts, FS_Interval DEF Days
  <2>2. /\ Cardinality(AwardedDays) \in Nat
        /\ Cardinality(AwardedDays) <= LastDay + 1
    BY <2>1, FS_Subset, FS_CardinalityType DEF AwardedDays
  <2>3. ASSUME NEW a \in Nat, NEW n \in Nat, NEW m \in Nat, n <= m
        PROVE  a * n <= a * m /\ a * n \in Nat /\ a * m \in Nat
    BY <2>3
  <2>4. /\ Award * Cardinality(AwardedDays) <= Award * (LastDay + 1)
        /\ Award * Cardinality(AwardedDays) \in Nat /\ Award * (LastDay + 1) \in Nat
    BY <2>2, <2>3, GivenFacts
  <2> QED
    BY <2>4, GivenFacts DEF GInv, GivenTyped
<1> QED
  BY <1>1, <1>2, <1>3, <1>4 DEF GivenOnce, Given!RedeemedOnce

\* A code is redeemed once, and once more at most for each edit that may enable it
\* again; a day is awarded once whichever requests race for it; codes never take
\* the wallet over its ceiling; and a day that reads as checked in was awarded,
\* unless a crash or a second failure lost the award (Redeem, UserCheckin).
THEOREM GivenExactlyOnce == MCSpec => []GivenOnce
<1>1. MCInit => GInv
  BY GivenInit DEF MCInit
<1>2. [MCNext]_<<part, vars, givenVars>> => [Given!Next]_givenVars
  BY DEF MCNext, givenVars
<1>3. GInv /\ [MCNext]_<<part, vars, givenVars>> => GInv'
  BY <1>2, GivenStep
<1> QED
  BY <1>1, <1>3, GivenHolds, PTL DEF MCSpec
=============================================================================
