--------------------------- MODULE BillingSession ---------------------------
(***************************************************************************)
(* The billing of relay requests: service/billing_session.go,              *)
(* service/funding_source.go, service/billing.go and the retry loop of     *)
(* controller/relay.go that drives them.                                   *)
(*                                                                         *)
(* Several requests of one user run at once, through one API token.  Each  *)
(* opens a BillingSession, which deducts an estimate from the token and    *)
(* from a funding source (the wallet or a subscription), may raise the     *)
(* estimate before each upstream attempt (Reserve), and ends either by     *)
(* adjusting to the actual price (Settle) or by giving everything back in  *)
(* a goroutine of its own (Refund).  The mutex of a session keeps its      *)
(* operations apart; the counters in the store are shared, so a step here  *)
(* is one storage operation, and the steps of different requests           *)
(* interleave.  A storage operation may fail (FaultBudget times), and then *)
(* changes nothing.                                                        *)
(***************************************************************************)
EXTENDS Integers

CONSTANTS
    Requests,       \* the requests in flight, all of one user and one token
    Profiles,       \* the kinds of request explored, see ProfileType
    Quotas,         \* prices a request can be estimated or charged at
    WalletInit,     \* users.quota at the start
    TokenInit,      \* tokens.remain_quota at the start
    TokenUnlimited, \* tokens.unlimited_quota
    SubTotal,       \* user_subscriptions.amount_total, 0 for unlimited
    HasSub,         \* the user has an active subscription
    AllowOverflow,  \* that subscription lets requests fall back to the wallet
    TrustQuota,     \* common.GetTrustQuota()
    RetryTimes,     \* common.RetryTimes
    FaultBudget     \* how many storage operations may fail

Preferences == {"wallet_only", "subscription_only",
                "wallet_first", "subscription_first"}

\* What the code asks about a request: is it an image request, does it come
\* from the playground (no token), is it an asynchronous task
\* (ForcePreConsume), and the user's billing preference.
ProfileType == [image : BOOLEAN, playground : BOOLEAN,
                force : BOOLEAN, pref : Preferences]

ASSUME ConstantsAssumption ==
    /\ Profiles \subseteq ProfileType
    /\ Quotas \subseteq Nat
    /\ WalletInit \in Int
    /\ TokenInit \in Int
    /\ TokenUnlimited \in BOOLEAN
    /\ SubTotal \in Nat
    /\ HasSub \in BOOLEAN
    /\ AllowOverflow \in BOOLEAN
    /\ TrustQuota \in Int
    /\ RetryTimes \in Nat
    /\ FaultBudget \in Nat

VARIABLES
    wallet,     \* users.quota; negative is debt
    token,      \* tokens.remain_quota
    sub,        \* user_subscriptions.amount_used
    profile,    \* what kind of request each one is
    pc,         \* where each request is
    want,       \* the amount the operation in progress is about
    tries,      \* upstream attempts made
    sess,       \* the BillingSession and its FundingSource
    took,       \* history: what each request has really taken, net
    logged,     \* requests for which the code logged a billing error
    faults      \* storage failures left

vars == <<wallet, token, sub, profile, pc, want, tries, sess, took, logged,
          faults>>

Sources == {"none", "wallet", "subscription"}

\* The BillingSession struct, with the fields of its FundingSource:
\* WalletFunding.consumed and SubscriptionFunding.preConsumed.
SessionType ==
    [funding : Sources, preConsumed : Nat, tokenConsumed : Nat,
     extraReserved : Nat, trusted : BOOLEAN, fundingSettled : BOOLEAN,
     settled : BOOLEAN, refunded : BOOLEAN,
     consumed : Int, subPre : Nat, tokenTrusted : BOOLEAN]

\* A session that has deducted nothing yet.
FreshSession(source, tokenTrusted) ==
    [funding |-> source, preConsumed |-> 0, tokenConsumed |-> 0,
     extraReserved |-> 0, trusted |-> FALSE, fundingSettled |-> FALSE,
     settled |-> FALSE, refunded |-> FALSE,
     consumed |-> 0, subPre |-> 0, tokenTrusted |-> tokenTrusted]

\* relayInfo.Billing = nil.
NoSession == FreshSession("none", FALSE)

Labels == {"start", "admit", "preToken", "preFund", "preUndo",
           "attempt", "resFund", "resToken", "resUndo", "upstream",
           "fail", "refFund", "refExtra", "refToken",
           "setFund", "setToken", "closed"}

Init ==
    /\ wallet = WalletInit
    /\ token = TokenInit
    /\ sub = 0
    /\ profile \in [Requests -> Profiles]
    /\ pc = [r \in Requests |-> "start"]
    /\ want = [r \in Requests |-> 0]
    /\ tries = [r \in Requests |-> 0]
    /\ sess = [r \in Requests |-> NoSession]
    /\ took = [r \in Requests |-> [wallet |-> 0, token |-> 0, sub |-> 0]]
    /\ logged = {}
    /\ faults = FaultBudget

-----------------------------------------------------------------------------
(* Storage operations: each is one atomic update of a counter.             *)

\* A storage operation of this step fails: nothing is stored.
Fault == /\ faults > 0
         /\ faults' = faults - 1
         /\ UNCHANGED <<wallet, token, sub, took>>

\* DecreaseUserQuota(n) and, for a negative n, IncreaseUserQuota(-n).
TakeWallet(r, n) ==
    /\ wallet' = wallet - n
    /\ took' = [took EXCEPT ![r].wallet = @ + n]
    /\ UNCHANGED <<token, sub, faults>>

\* DecreaseTokenQuota(n) and IncreaseTokenQuota(-n); the playground has no
\* token to charge.
TakeToken(r, n) ==
    /\ IF profile[r].playground
       THEN UNCHANGED <<token, took>>
       ELSE /\ token' = token - n
            /\ took' = [took EXCEPT ![r].token = @ + n]
    /\ UNCHANGED <<wallet, sub, faults>>

\* A bug this model can tell: the plan is checked before the amount is added.
SubAcceptsStale(n) == SubTotal = 0 \/ sub < SubTotal

\* PostConsumeUserSubscriptionDelta refuses to go over the total of the plan;
\* a total of 0 is no limit.
SubAccepts(n) == SubTotal = 0 \/ sub + n <= SubTotal

\* PostConsumeUserSubscriptionDelta(n), accepted: usage never goes below 0.
TakeSub(r, n) ==
    /\ sub' = IF sub + n < 0 THEN 0 ELSE sub + n
    /\ took' = [took EXCEPT ![r].sub = @ + sub' - sub]
    /\ UNCHANGED <<wallet, token, faults>>

\* TryReserveTokenQuota: an unlimited token is decreased without a check.
TokenAccepts(r, n) ==
    profile[r].playground \/ TokenUnlimited \/ token >= n

Go(r, label) == pc' = [pc EXCEPT ![r] = label]

-----------------------------------------------------------------------------
(* NewBillingSession and preConsume.                                       *)

\* The source a preference tries first.
FirstSource(r) ==
    CASE profile[r].pref \in {"wallet_only", "wallet_first"} -> "wallet"
      [] profile[r].pref = "subscription_only"               -> "subscription"
      [] OTHER -> IF HasSub THEN "subscription" ELSE "wallet"

\* The source to fall back to when the first one has not enough quota.
Fallback(r, source) ==
    CASE profile[r].pref = "wallet_first" /\ source = "wallet"
           -> "subscription"
      [] profile[r].pref = "subscription_first" /\ source = "subscription"
                                                /\ AllowOverflow
           -> "wallet"
      [] OTHER -> "none"

\* PreConsumeBilling(q): a session for a source is tried.  token_quota was put
\* in the request's context when the token was authenticated.
OpenSession(r, q) ==
    /\ Go(r, "admit")
    /\ want' = [want EXCEPT ![r] = q]
    /\ sess' = [sess EXCEPT ![r] =
          FreshSession(FirstSource(r), TokenUnlimited \/ token > TrustQuota)]

\* ErrorCodeInsufficientUserQuota while the session is made: try the other
\* source or give up.  The session that failed is dropped.
Insufficient(r) ==
    LET next == Fallback(r, sess[r].funding) IN
    /\ Go(r, IF next = "none" THEN "closed" ELSE "admit")
    /\ sess' = [sess EXCEPT ![r] = FreshSession(next, sess[r].tokenTrusted)]

\* Any other error while the session is made ends the request.
Drop(r) ==
    /\ Go(r, "closed")
    /\ sess' = [sess EXCEPT ![r] = NoSession]

\* Relay up to the retry loop: a free model makes no session; an estimate that
\* was clamped or is negative is refused before one is made.
Start(r) ==
    /\ pc[r] = "start"
    /\ \/ /\ Go(r, "attempt")
          /\ UNCHANGED <<want, sess>>
       \/ /\ Go(r, "closed")
          /\ UNCHANGED <<want, sess>>
       \/ \E q \in Quotas : OpenSession(r, q)
    /\ UNCHANGED <<wallet, token, sub, profile, tries, took, logged, faults>>

\* shouldTrust.  relayInfo.UserQuota is the balance tryWallet has just read.
ShouldTrust(r) ==
    /\ ~profile[r].force
    /\ TrustQuota > 0
    /\ sess[r].tokenTrusted
    /\ sess[r].funding = "wallet"
    /\ wallet > TrustQuota

\* What preConsume deducts: nothing from a trusted user; at least 1 from a
\* subscription, so that a pre-consume record is made.
Effective(r) ==
    IF sess[r].funding = "subscription"
    THEN IF want[r] <= 0 THEN 1 ELSE want[r]
    ELSE IF sess[r].trusted THEN 0 ELSE want[r]

\* tryWallet: the balance is read and checked, nothing is reserved yet.
AdmitWallet(r) ==
    /\ pc[r] = "admit" /\ sess[r].funding = "wallet"
    /\ \/ /\ wallet > 0 /\ wallet >= want[r]
          /\ sess' = [sess EXCEPT ![r].trusted = ShouldTrust(r)]
          /\ Go(r, IF ShouldTrust(r) \/ want[r] = 0 THEN "preFund" ELSE "preToken")
          /\ UNCHANGED <<wallet, token, sub, took, faults>>
       \/ /\ wallet <= 0 \/ wallet < want[r]
          /\ Insufficient(r)
          /\ UNCHANGED <<wallet, token, sub, took, faults>>
       \/ Fault /\ Drop(r)
    /\ UNCHANGED <<profile, want, tries, logged>>

\* trySubscription has no check of its own.
AdmitSubscription(r) ==
    /\ pc[r] = "admit" /\ sess[r].funding = "subscription"
    /\ Go(r, "preToken")
    /\ UNCHANGED <<wallet, token, sub, profile, want, tries, sess, took, logged,
                   faults>>

\* preConsume, step 1: the token pays first; a refusal ends the request.
PreToken(r) ==
    /\ pc[r] = "preToken"
    /\ \/ /\ TokenAccepts(r, Effective(r))
          /\ TakeToken(r, Effective(r))
          /\ sess' = [sess EXCEPT ![r].tokenConsumed = Effective(r)]
          /\ Go(r, "preFund")
       \/ /\ ~TokenAccepts(r, Effective(r))
          /\ Drop(r)
          /\ UNCHANGED <<wallet, token, sub, took, faults>>
       \/ ~profile[r].playground /\ Fault /\ Drop(r)
    /\ UNCHANGED <<profile, want, tries, logged>>

\* A bug this model can tell: the balance checked by tryWallet is trusted.
FundAcceptsUnchecked(r, n) ==
    sess[r].funding = "wallet" \/ (HasSub /\ SubAccepts(n))

\* WalletFunding.PreConsume(n): a conditional update of the balance.
\* SubscriptionFunding.PreConsume: PreConsumeUserSubscription, one transaction.
FundAccepts(r, n) ==
    IF sess[r].funding = "wallet"
    THEN n = 0 \/ wallet >= n
    ELSE HasSub /\ SubAccepts(n)

\* preConsume, step 2: the funding source pays.
PreFund(r) ==
    LET n == Effective(r) IN
    /\ pc[r] = "preFund"
    /\ \/ /\ FundAccepts(r, n)
          /\ IF sess[r].funding = "wallet"
             THEN /\ TakeWallet(r, n)
                  /\ sess' = [sess EXCEPT ![r].consumed = n,
                                          ![r].preConsumed = n]
             ELSE /\ TakeSub(r, n)
                  /\ sess' = [sess EXCEPT ![r].subPre = n,
                                          ![r].preConsumed = n]
          /\ Go(r, "attempt")
       \/ /\ ~FundAccepts(r, n)
          /\ Go(r, "preUndo")
          /\ UNCHANGED <<wallet, token, sub, sess, took, faults>>
       \/ /\ n > 0
          /\ Fault                      \* a storage error: no fall back
          /\ sess' = [sess EXCEPT ![r].funding = "none"]
          /\ Go(r, "preUndo")
    /\ UNCHANGED <<profile, want, tries, logged>>

\* The funding source refused: the token is paid back, then the other source is
\* tried if the refusal was for lack of quota.
PreUndo(r) ==
    /\ pc[r] = "preUndo"
    /\ \/ /\ TakeToken(r, -sess[r].tokenConsumed)
          /\ UNCHANGED logged
       \/ /\ ~profile[r].playground
          /\ Fault
          /\ logged' = logged \cup {r}
    /\ Insufficient(r)
    /\ UNCHANGED <<profile, want, tries>>

-----------------------------------------------------------------------------
(* The retry loop of Relay, and Reserve.                                   *)

\* The top of the retry loop.  A channel is picked (or none is left), and the
\* price for its group is estimated anew: a request that had no session gets
\* one when the group is not free, a request that has one reserves the
\* difference.  A trusted session reserves only for an image request.
Attempt(r) ==
    /\ pc[r] = "attempt"
    /\ \/ Go(r, "fail") /\ UNCHANGED <<want, sess>>       \* no channel
       \/ Go(r, "upstream") /\ UNCHANGED <<want, sess>>   \* price unchanged
       \/ /\ sess[r].funding = "none"
          /\ \E q \in Quotas : OpenSession(r, q)
       \/ /\ sess[r].funding # "none"
          /\ profile[r].image \/ ~sess[r].trusted
          /\ \E q \in Quotas :
                /\ q > sess[r].preConsumed
                /\ want' = [want EXCEPT ![r] = q - sess[r].preConsumed]
          /\ Go(r, "resFund")
          /\ UNCHANGED sess
    /\ UNCHANGED <<wallet, token, sub, profile, tries, took, logged, faults>>

\* reserveFunding.  An image request may not go into debt: it reserves with
\* WalletFunding.PreConsume, which assigns the field consumed.  Any other
\* wallet reservation is taken in full whatever the balance, and added to it.
ReserveFunding(r) ==
    LET n == want[r] IN
    /\ pc[r] = "resFund"
    /\ \/ /\ sess[r].funding = "wallet" /\ profile[r].image
          /\ wallet >= n
          /\ TakeWallet(r, n)
          /\ sess' = [sess EXCEPT ![r].consumed = n]
          /\ Go(r, "resToken")
       \/ /\ sess[r].funding = "wallet" /\ ~profile[r].image
          /\ TakeWallet(r, n)
          /\ sess' = [sess EXCEPT ![r].consumed = @ + n]
          /\ Go(r, "resToken")
       \/ /\ sess[r].funding = "subscription" /\ SubAccepts(n)
          /\ TakeSub(r, n)
          /\ Go(r, "resToken")
          /\ UNCHANGED sess
       \/ /\ \/ sess[r].funding = "wallet" /\ profile[r].image /\ wallet < n
             \/ sess[r].funding = "subscription" /\ ~SubAccepts(n)
          /\ Go(r, "fail")
          /\ UNCHANGED <<wallet, token, sub, sess, took, faults>>
       \/ Fault /\ Go(r, "fail") /\ UNCHANGED sess
    /\ UNCHANGED <<profile, want, tries, logged>>

\* reserveToken, and the end of Reserve when it succeeds.
ReserveToken(r) ==
    LET n == want[r] IN
    /\ pc[r] = "resToken"
    /\ \/ /\ TokenAccepts(r, n)
          /\ TakeToken(r, n)
          /\ sess' = [sess EXCEPT ![r].preConsumed = @ + n,
                                  ![r].tokenConsumed = @ + n,
                                  ![r].extraReserved = @ + n,
                                  ![r].trusted = @ /\ ~profile[r].image]
          /\ Go(r, "upstream")
       \/ /\ ~TokenAccepts(r, n)
          /\ Go(r, "resUndo")
          /\ UNCHANGED <<wallet, token, sub, sess, took, faults>>
       \/ /\ ~profile[r].playground /\ Fault
          /\ Go(r, "resUndo")
          /\ UNCHANGED sess
    /\ UNCHANGED <<profile, want, tries, logged>>

\* rollbackFundingReserve: the token refused, the funding source is paid back.
ReserveUndo(r) ==
    LET n == want[r] IN
    /\ pc[r] = "resUndo"
    /\ Go(r, "fail")
    /\ \/ /\ sess[r].funding = "wallet"
          /\ TakeWallet(r, -n)
          /\ sess' = [sess EXCEPT ![r].consumed = @ - n]
          /\ UNCHANGED logged
       \/ /\ sess[r].funding = "subscription"
          /\ TakeSub(r, -n)
          /\ UNCHANGED <<sess, logged>>
       \/ /\ Fault
          /\ logged' = logged \cup {r}
          /\ UNCHANGED sess
    /\ UNCHANGED <<profile, want, tries>>

IncreaseRetryForgotten(r) == tries[r]

\* The condition of the retry loop, and its step.
MayRetry(r) == tries[r] < RetryTimes
IncreaseRetry(r) == tries[r] + 1

\* The upstream answers: with a result whose price is settled, or with an error
\* after which the loop tries again while it may.
Upstream(r) ==
    /\ pc[r] = "upstream"
    /\ \/ /\ IF sess[r].funding = "none"
             THEN Go(r, "closed") /\ UNCHANGED want      \* a free group
             ELSE /\ Go(r, "setFund")
                  /\ \E q \in Quotas : want' = [want EXCEPT ![r] = q]
          /\ UNCHANGED tries
       \/ /\ MayRetry(r)
          /\ tries' = [tries EXCEPT ![r] = IncreaseRetry(r)]
          /\ Go(r, "attempt")
          /\ UNCHANGED want
       \/ Go(r, "fail") /\ UNCHANGED <<want, tries>>
    /\ UNCHANGED <<wallet, token, sub, profile, sess, took, logged, faults>>

-----------------------------------------------------------------------------
(* Refund and Settle.                                                      *)

NeedsRefund(r) ==
    /\ ~sess[r].settled /\ ~sess[r].refunded /\ ~sess[r].fundingSettled
    /\ sess[r].tokenConsumed > 0 \/ sess[r].subPre > 0

\* The deferred function of Relay calls Refund, which hands the work to a
\* goroutine of its own.
Fail(r) ==
    /\ pc[r] = "fail"
    /\ IF NeedsRefund(r)
       THEN /\ sess' = [sess EXCEPT ![r].refunded = TRUE]
            /\ Go(r, "refFund")
       ELSE /\ Go(r, "closed")
            /\ UNCHANGED sess
    /\ UNCHANGED <<wallet, token, sub, profile, want, tries, took, logged,
                   faults>>

\* Bugs this model can tell: what Reserve added is kept, or paid back twice.
WalletRefundFirst(r) == sess[r].consumed - sess[r].extraReserved
WalletRefundTwice(r) == sess[r].consumed + sess[r].extraReserved

\* WalletFunding.Refund gives back what the field consumed says, if positive.
WalletRefund(r) == IF sess[r].consumed <= 0 THEN 0 ELSE sess[r].consumed

\* funding.Refund(), in the goroutine: SubscriptionFunding gives back what its
\* pre-consume record says, in up to three attempts, taken here as one atomic
\* operation of the subscription ledger.
RefundFunding(r) ==
    /\ pc[r] = "refFund"
    /\ Go(r, IF sess[r].funding = "subscription" /\ sess[r].extraReserved > 0
             THEN "refExtra" ELSE "refToken")
    /\ \/ /\ IF sess[r].funding = "wallet"
             THEN TakeWallet(r, -WalletRefund(r))
             ELSE TakeSub(r, -sess[r].subPre)
          /\ UNCHANGED logged
       \/ /\ Fault
          /\ logged' = logged \cup {r}
    /\ UNCHANGED <<profile, want, tries, sess>>

\* What Reserve added to a subscription is not in its record.
RefundExtra(r) ==
    /\ pc[r] = "refExtra"
    /\ Go(r, "refToken")
    /\ \/ TakeSub(r, -sess[r].extraReserved) /\ UNCHANGED logged
       \/ Fault /\ logged' = logged \cup {r}
    /\ UNCHANGED <<profile, want, tries, sess>>

RefundToken(r) ==
    /\ pc[r] = "refToken"
    /\ Go(r, "closed")
    /\ \/ TakeToken(r, -sess[r].tokenConsumed) /\ UNCHANGED logged
       \/ ~profile[r].playground /\ Fault /\ logged' = logged \cup {r}
    /\ UNCHANGED <<profile, want, tries, sess>>

\* Settle, step 1: the funding source is adjusted to the actual price.  An
\* error (a subscription that has not the difference left, or storage) leaves
\* the pre-consumed amount as the charge: the caller only logs it.
SettleFunding(r) ==
    LET delta == want[r] - sess[r].preConsumed IN
    /\ pc[r] = "setFund"
    /\ \/ /\ delta = 0
          /\ sess' = [sess EXCEPT ![r].settled = TRUE]
          /\ Go(r, "closed")
          /\ UNCHANGED <<wallet, token, sub, took, logged, faults>>
       \/ /\ delta # 0
          /\ \/ sess[r].funding = "wallet" /\ TakeWallet(r, delta)
             \/ sess[r].funding = "subscription" /\ SubAccepts(delta)
                                                 /\ TakeSub(r, delta)
          /\ sess' = [sess EXCEPT ![r].fundingSettled = TRUE]
          /\ Go(r, "setToken")
          /\ UNCHANGED logged
       \/ /\ delta # 0
          /\ \/ /\ sess[r].funding = "subscription" /\ ~SubAccepts(delta)
                /\ UNCHANGED <<wallet, token, sub, took, faults>>
             \/ Fault
          /\ logged' = logged \cup {r}
          /\ Go(r, "closed")
          /\ UNCHANGED sess
    /\ UNCHANGED <<profile, want, tries>>

\* Settle, step 2: the token follows; a failure is only logged.
SettleToken(r) ==
    LET delta == want[r] - sess[r].preConsumed IN
    /\ pc[r] = "setToken"
    /\ Go(r, "closed")
    /\ sess' = [sess EXCEPT ![r].settled = TRUE]
    /\ \/ TakeToken(r, delta) /\ UNCHANGED logged
       \/ ~profile[r].playground /\ Fault /\ logged' = logged \cup {r}
    /\ UNCHANGED <<profile, want, tries>>

-----------------------------------------------------------------------------
Step(r) ==
    \/ Start(r) \/ AdmitWallet(r) \/ AdmitSubscription(r)
    \/ PreToken(r) \/ PreFund(r) \/ PreUndo(r)
    \/ Attempt(r) \/ ReserveFunding(r) \/ ReserveToken(r) \/ ReserveUndo(r)
    \/ Upstream(r) \/ Fail(r)
    \/ RefundFunding(r) \/ RefundExtra(r) \/ RefundToken(r)
    \/ SettleFunding(r) \/ SettleToken(r)

Done == (\A r \in Requests : pc[r] = "closed") /\ UNCHANGED vars

Next == (\E r \in Requests : Step(r)) \/ Done

\* A request is a goroutine, and its refund another: each keeps running.
Spec == Init /\ [][Next]_vars /\ \A r \in Requests : WF_vars(Step(r))

-----------------------------------------------------------------------------
(* Properties.                                                             *)

CountersOK ==
    /\ wallet \in Int
    /\ token \in Int
    /\ sub \in Nat
    /\ took \in [Requests -> [wallet : Int, token : Int, sub : Int]]
    /\ faults \in 0 .. FaultBudget

ControlOK ==
    /\ profile \in [Requests -> Profiles]
    /\ pc \in [Requests -> Labels]
    /\ want \in [Requests -> Nat]
    /\ tries \in [Requests -> 0 .. RetryTimes]
    /\ logged \subseteq Requests

SessionsOK == sess \in [Requests -> SessionType]

\* Every counter, program counter and session field has its type; deductions
\* are naturals and the retry loop (Relay) never runs past RetryTimes.
TypeOK == CountersOK /\ ControlOK /\ SessionsOK

\* What request r has cost the user and the token when it cost n from a source.
Charge(r, source, n) ==
    [wallet |-> IF source = "wallet" THEN n ELSE 0,
     sub    |-> IF source = "subscription" THEN n ELSE 0,
     token  |-> IF profile[r].playground THEN 0 ELSE n]

\* A closed request has cost exactly its actual price if it was settled, from
\* one source and equally from the token, and nothing at all if it was refused
\* or refunded, whatever fall backs, reservations and rollbacks it went
\* through; the exceptions are the ones the code logs.  (Image requests paid
\* by the wallet are the subject of RefundReturnsEverything.)
LedgerExact ==
    \A r \in Requests :
        /\ pc[r] = "closed"
        /\ r \notin logged
        /\ ~(profile[r].image /\ sess[r].funding = "wallet")
        => took[r] = Charge(r, sess[r].funding,
                            IF sess[r].settled THEN want[r] ELSE 0)

\* No request ever gets back more than it paid, from any counter, in any state
\* and whatever storage operation failed: Settle, the rollbacks and the
\* asynchronous Refund never pay the same deduction back twice.
NeverOverRefunded ==
    \A r \in Requests :
        took[r].wallet >= 0 /\ took[r].sub >= 0 /\ took[r].token >= 0

\* What r took from the wallet with no check of the balance: what Settle adds
\* to the estimate, and what a request other than an image request reserves.
Unchecked(r) ==
    took[r].wallet - (sess[r].preConsumed
                      - IF profile[r].image THEN 0 ELSE sess[r].extraReserved)

\* Concurrent pre-consumption never overdraws: a negative balance is owed to a
\* request that was settled above its estimate or that raised it in flight,
\* and a limited token in debt to one that was settled above its estimate.
DebtIsExplained ==
    /\ wallet < 0 => \E r \in Requests : Unchecked(r) > 0
    /\ token < 0 /\ ~TokenUnlimited =>
          \E r \in Requests : took[r].token > sess[r].tokenConsumed

WithinPlan == SubTotal > 0 => sub <= SubTotal

\* Concurrent requests never use more of a subscription than its plan grants,
\* and it never counts less than they still hold.
SubscriptionWithinPlan ==
    /\ WithinPlan
    /\ \A r \in Requests : took[r].sub <= sub

\* "Refund returns all pre-deductions" (billing_session.go:83 and the comment of
\* FundingSource.Refund): a refunded request whose storage operations all
\* succeeded has cost its user nothing.
RefundReturnsEverything ==
    \A r \in Requests :
        pc[r] = "closed" /\ sess[r].refunded /\ r \notin logged
            => took[r].wallet = 0

\* Every request is closed in the end, so that nothing stays pre-consumed for a
\* request that is over: the retry loop stops and the refund goroutine runs.
EveryRequestCloses == \A r \in Requests : <>(pc[r] = "closed")

=============================================================================
