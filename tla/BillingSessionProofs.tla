------------------------ MODULE BillingSessionProofs ------------------------
(* Theorems about BillingSession, for every value of its constants.        *)
EXTENDS BillingSession, FiniteSets, FiniteSetTheorems, TLAPS

-----------------------------------------------------------------------------
(* Type correctness.                                                       *)

LEMMA InitTypeOK == Init => TypeOK
  BY ConstantsAssumption
  DEF Init, TypeOK, CountersOK, ControlOK, SessionsOK, NoSession, FreshSession, SessionType,
      Sources, Labels

\* Each storage operation leaves the counters well typed.
LEMMA TakeWalletType ==
    ASSUME CountersOK, NEW r \in Requests, NEW n \in Int, TakeWallet(r, n)
    PROVE  CountersOK'
  BY DEF CountersOK, TakeWallet

LEMMA TakeTokenType ==
    ASSUME CountersOK, NEW r \in Requests, NEW n \in Int, TakeToken(r, n)
    PROVE  CountersOK'
  BY DEF CountersOK, TakeToken

LEMMA TakeSubType ==
    ASSUME CountersOK, NEW r \in Requests, NEW n \in Int, TakeSub(r, n)
    PROVE  CountersOK'
  BY DEF CountersOK, TakeSub

LEMMA FaultType == ASSUME CountersOK, Fault PROVE CountersOK'
  BY ConstantsAssumption DEF CountersOK, Fault

\* The amounts a step deals with are integers.
LEMMA AmountsAreNumbers ==
    ASSUME TypeOK, NEW r \in Requests
    PROVE  /\ want[r] \in Nat
           /\ Effective(r) \in Nat
           /\ WalletRefund(r) \in Int
           /\ sess[r] \in SessionType
           /\ sess[r].tokenConsumed \in Nat
           /\ sess[r].extraReserved \in Nat
           /\ sess[r].preConsumed \in Nat
           /\ sess[r].subPre \in Nat
           /\ sess[r].consumed \in Int
  BY DEF TypeOK, ControlOK, SessionsOK, SessionType, Effective, WalletRefund

LEMMA StepCounters ==
    ASSUME TypeOK, NEW r \in Requests, Step(r) PROVE CountersOK'
<1> USE AmountsAreNumbers, TakeWalletType, TakeTokenType, TakeSubType, FaultType
    DEF TypeOK
<1>1. CASE Start(r)
  BY <1>1 DEF Start, CountersOK
<1>2. CASE AdmitWallet(r)
  BY <1>2 DEF AdmitWallet, CountersOK
<1>3. CASE AdmitSubscription(r)
  BY <1>3 DEF AdmitSubscription, CountersOK
<1>4. CASE PreToken(r)
  BY <1>4 DEF PreToken, CountersOK
<1>5. CASE PreFund(r)
  BY <1>5 DEF PreFund, CountersOK
<1>6. CASE PreUndo(r)
  BY <1>6 DEF PreUndo
<1>7. CASE Attempt(r)
  BY <1>7 DEF Attempt, CountersOK
<1>8. CASE ReserveFunding(r)
  BY <1>8 DEF ReserveFunding, CountersOK
<1>9. CASE ReserveToken(r)
  BY <1>9 DEF ReserveToken, CountersOK
<1>10. CASE ReserveUndo(r)
  BY <1>10 DEF ReserveUndo
<1>11. CASE Upstream(r)
  BY <1>11 DEF Upstream, CountersOK
<1>12. CASE Fail(r)
  BY <1>12 DEF Fail, CountersOK
<1>13. CASE RefundFunding(r)
  BY <1>13 DEF RefundFunding
<1>14. CASE RefundExtra(r)
  BY <1>14 DEF RefundExtra
<1>15. CASE RefundToken(r)
  BY <1>15 DEF RefundToken
<1>16. CASE SettleFunding(r)
  BY <1>16 DEF SettleFunding, CountersOK
<1>17. CASE SettleToken(r)
  BY <1>17 DEF SettleToken
<1> QED
  BY <1>1, <1>2, <1>3, <1>4, <1>5, <1>6, <1>7, <1>8, <1>9, <1>10, <1>11, <1>12, <1>13, <1>14, <1>15, <1>16, <1>17 DEF Step

LEMMA StepControl ==
    ASSUME TypeOK, NEW r \in Requests, Step(r) PROVE ControlOK'
<1> USE ConstantsAssumption, AmountsAreNumbers DEF TypeOK, ControlOK, Go, Labels
<1>1. CASE Start(r)
  BY <1>1 DEF Start, OpenSession
<1>2. CASE AdmitWallet(r)
  BY <1>2 DEF AdmitWallet, Insufficient, Drop
<1>3. CASE AdmitSubscription(r)
  BY <1>3 DEF AdmitSubscription
<1>4. CASE PreToken(r)
  BY <1>4 DEF PreToken, Drop
<1>5. CASE PreFund(r)
  BY <1>5 DEF PreFund
<1>6. CASE PreUndo(r)
  BY <1>6 DEF PreUndo, Insufficient
<1>7. CASE Attempt(r)
  BY <1>7 DEF Attempt, OpenSession
<1>8. CASE ReserveFunding(r)
  BY <1>8 DEF ReserveFunding
<1>9. CASE ReserveToken(r)
  BY <1>9 DEF ReserveToken
<1>10. CASE ReserveUndo(r)
  BY <1>10 DEF ReserveUndo
<1>11. CASE Upstream(r)
  BY <1>11 DEF Upstream, MayRetry, IncreaseRetry
<1>12. CASE Fail(r)
  BY <1>12 DEF Fail
<1>13. CASE RefundFunding(r)
  BY <1>13 DEF RefundFunding
<1>14. CASE RefundExtra(r)
  BY <1>14 DEF RefundExtra
<1>15. CASE RefundToken(r)
  BY <1>15 DEF RefundToken
<1>16. CASE SettleFunding(r)
  BY <1>16 DEF SettleFunding
<1>17. CASE SettleToken(r)
  BY <1>17 DEF SettleToken
<1> QED
  BY <1>1, <1>2, <1>3, <1>4, <1>5, <1>6, <1>7, <1>8, <1>9, <1>10, <1>11, <1>12, <1>13, <1>14, <1>15, <1>16, <1>17 DEF Step

\* A session that has just been made is well typed.
LEMMA FreshSessionType ==
    ASSUME NEW source \in Sources, NEW b \in BOOLEAN
    PROVE  /\ NoSession \in SessionType
           /\ FreshSession(source, b) \in SessionType
  BY DEF FreshSession, NoSession, SessionType, Sources

LEMMA ChoicesType ==
    ASSUME TypeOK, NEW r \in Requests
    PROVE  /\ FirstSource(r) \in Sources
           /\ Fallback(r, sess[r].funding) \in Sources
           /\ (TokenUnlimited \/ token > TrustQuota) \in BOOLEAN
           /\ sess[r].tokenTrusted \in BOOLEAN
           /\ ShouldTrust(r) \in BOOLEAN
<1>1. FirstSource(r) \in Sources
  BY DEF FirstSource, Sources
<1>2. Fallback(r, sess[r].funding) \in Sources
  BY DEF Fallback, Sources
<1>3. sess[r].tokenTrusted \in BOOLEAN
  BY DEF TypeOK, SessionsOK, SessionType
<1> QED
  BY <1>1, <1>2, <1>3 DEF ShouldTrust

LEMMA StepSessions ==
    ASSUME TypeOK, NEW r \in Requests, Step(r) PROVE SessionsOK'
<1> USE AmountsAreNumbers, ChoicesType DEF SessionsOK
<1>0. SessionsOK
  BY DEF TypeOK
<1>1. CASE Start(r)
  BY <1>0, <1>1, FreshSessionType, ZenonT(60) DEF Start, OpenSession
<1>2. CASE AdmitWallet(r)
  <2>1. [sess[r] EXCEPT !.trusted = ShouldTrust(r)] \in SessionType
    BY DEF SessionType, Sources
  <2> QED
    BY <1>0, <1>2, <2>1, FreshSessionType DEF AdmitWallet, Insufficient, Drop
<1>3. CASE AdmitSubscription(r)
  BY <1>0, <1>3 DEF AdmitSubscription
<1>4. CASE PreToken(r)
  <2>1. [sess[r] EXCEPT !.tokenConsumed = Effective(r)] \in SessionType
    BY DEF SessionType, Sources
  <2>2. NoSession \in SessionType
    BY FreshSessionType
  <2>3. \/ sess' = [sess EXCEPT ![r] = NoSession]
        \/ sess' = [sess EXCEPT ![r] = [sess[r] EXCEPT !.tokenConsumed = Effective(r)]]
    BY <1>4 DEF PreToken, Drop
  <2> QED
    BY <1>0, <2>1, <2>2, <2>3
<1>5. CASE PreFund(r)
  <2>1. [sess[r] EXCEPT !.consumed = Effective(r), !.preConsumed = Effective(r)] \in SessionType
    <3>1. ASSUME NEW s \in SessionType, NEW m \in Int, NEW n \in Nat
          PROVE  [s EXCEPT !.consumed = m, !.preConsumed = n] \in SessionType
      BY DEF SessionType
    <3>2. Effective(r) \in Int
      OBVIOUS
    <3> QED
      BY <3>1, <3>2
  <2>2. [sess[r] EXCEPT !.subPre = Effective(r), !.preConsumed = Effective(r)] \in SessionType
    BY DEF SessionType, Sources
  <2>3. [sess[r] EXCEPT !.funding = "none"] \in SessionType
    BY DEF SessionType, Sources
  <2> QED
    BY <1>0, <1>5, <2>1, <2>2, <2>3 DEF PreFund
<1>6. CASE PreUndo(r)
  BY <1>0, <1>6, FreshSessionType DEF PreUndo, Insufficient
<1>7. CASE Attempt(r)
  BY <1>0, <1>7, FreshSessionType DEF Attempt, OpenSession
<1>8. CASE ReserveFunding(r)
  <2>1. [sess[r] EXCEPT !.consumed = want[r]] \in SessionType
    BY DEF SessionType, Sources
  <2>2. [sess[r] EXCEPT !.consumed = sess[r].consumed + want[r]] \in SessionType
    BY DEF SessionType, Sources
  <2> QED
    BY <1>0, <1>8, <2>1, <2>2 DEF ReserveFunding
<1>9. CASE ReserveToken(r)
  BY <1>0, <1>9 DEF ReserveToken, SessionType
<1>10. CASE ReserveUndo(r)
  <2>1. [sess[r] EXCEPT !.consumed = sess[r].consumed - want[r]] \in SessionType
    BY DEF SessionType, Sources
  <2> QED
    BY <1>0, <1>10, <2>1 DEF ReserveUndo
<1>11. CASE Upstream(r)
  BY <1>0, <1>11 DEF Upstream
<1>12. CASE Fail(r)
  <2>1. [sess[r] EXCEPT !.refunded = TRUE] \in SessionType
    BY DEF SessionType, Sources
  <2> QED
    BY <1>0, <1>12, <2>1 DEF Fail
<1>13. CASE RefundFunding(r)
  BY <1>0, <1>13 DEF RefundFunding
<1>14. CASE RefundExtra(r)
  BY <1>0, <1>14 DEF RefundExtra
<1>15. CASE RefundToken(r)
  BY <1>0, <1>15 DEF RefundToken
<1>16. CASE SettleFunding(r)
  <2>1. [sess[r] EXCEPT !.settled = TRUE] \in SessionType
    BY DEF SessionType, Sources
  <2>2. [sess[r] EXCEPT !.fundingSettled = TRUE] \in SessionType
    BY DEF SessionType, Sources
  <2> QED
    BY <1>0, <1>16, <2>1, <2>2 DEF SettleFunding
<1>17. CASE SettleToken(r)
  <2>1. [sess[r] EXCEPT !.settled = TRUE] \in SessionType
    BY DEF SessionType, Sources
  <2> QED
    BY <1>0, <1>17, <2>1 DEF SettleToken
<1> QED
  BY <1>1, <1>2, <1>3, <1>4, <1>5, <1>6, <1>7, <1>8, <1>9, <1>10, <1>11,
     <1>12, <1>13, <1>14, <1>15, <1>16, <1>17 DEF Step

\* The type invariant holds in every behaviour: every counter and every field of
\* every session stays in its type, deductions are naturals, and the retry loop
\* of Relay never exceeds RetryTimes.
THEOREM TypeCorrect == Spec => []TypeOK
<1>1. TypeOK /\ [Next]_vars => TypeOK'
  <2> SUFFICES ASSUME TypeOK, [Next]_vars PROVE TypeOK'
    OBVIOUS
  <2>1. ASSUME NEW r \in Requests, Step(r) PROVE TypeOK'
    BY <2>1, StepCounters, StepControl, StepSessions DEF TypeOK
  <2>2. CASE Done \/ UNCHANGED vars
    BY <2>2 DEF Done, vars, TypeOK, CountersOK, ControlOK, SessionsOK
  <2> QED
    BY <2>1, <2>2 DEF Next
<1> QED
  BY <1>1, InitTypeOK, PTL DEF Spec

-----------------------------------------------------------------------------
(* Nothing is refunded twice: what a request has really taken is at least  *)
(* what its session may still give back, at every statement.               *)

\* A session that has deducted nothing.
Nothing(s) ==
    /\ s.preConsumed = 0 /\ s.extraReserved = 0
    /\ s.subPre = 0 /\ s.consumed = 0

NoDebt(r) == took[r].wallet >= 0 /\ took[r].sub >= 0 /\ took[r].token >= 0

TokenHeld(r) == profile[r].playground \/ took[r].token >= sess[r].tokenConsumed

\* What a reservation in progress has taken and not yet recorded.
Pending(r) == IF pc[r] \in {"resToken", "resUndo"} THEN want[r] ELSE 0

\* The funding source has given what the session says, at least.
FundHeld(r) ==
    /\ sess[r].tokenConsumed = sess[r].preConsumed
    /\ sess[r].funding = "wallet" =>
          /\ took[r].wallet >= sess[r].consumed
          /\ took[r].wallet >= sess[r].preConsumed + Pending(r)
          /\ sess[r].subPre = 0
    /\ sess[r].funding # "wallet" =>
          /\ sess[r].preConsumed = sess[r].subPre + sess[r].extraReserved
          /\ took[r].sub >= sess[r].preConsumed + Pending(r)
    /\ sess[r].funding = "none" => sess[r].preConsumed = 0

Running == {"attempt", "resFund", "resToken", "resUndo", "upstream", "fail", "setFund"}

RequestOK(r) ==
    /\ NoDebt(r)
    /\ pc[r] \in {"start", "admit", "preToken"} =>
          Nothing(sess[r]) /\ sess[r].tokenConsumed = 0
    /\ pc[r] \in {"start", "closed"} \/ TokenHeld(r)
    /\ pc[r] \in {"preFund", "preUndo"} => Nothing(sess[r])
    /\ pc[r] = "preFund" => sess[r].tokenConsumed = Effective(r)
    /\ pc[r] \in Running => FundHeld(r)
    /\ pc[r] = "start" => sess[r].funding = "none"
    /\ pc[r] \in {"admit", "preToken", "preFund", "resFund", "resToken", "resUndo"}
          => sess[r].funding # "none"
    /\ pc[r] = "refFund" =>
          IF sess[r].funding = "wallet" THEN took[r].wallet >= sess[r].consumed
          ELSE took[r].sub >= sess[r].subPre + sess[r].extraReserved
    /\ pc[r] = "refExtra" => took[r].sub >= sess[r].extraReserved
    /\ pc[r] = "setToken" => sess[r].tokenConsumed = sess[r].preConsumed

IInv ==
    /\ TypeOK
    /\ \A r \in Requests : RequestOK(r)
    /\ WithinPlan

\* What the storage operations do to the history of the request.
TookAfter(r, w, b, k) ==
    /\ took'[r].wallet = w /\ took'[r].sub = b /\ took'[r].token = k
    /\ \A q \in Requests \ {r} : took'[q] = took[q]

LEMMA TakeWalletTook ==
    ASSUME TypeOK, NEW r \in Requests, NEW n \in Int, TakeWallet(r, n)
    PROVE  TookAfter(r, took[r].wallet + n, took[r].sub, took[r].token)
<1>1. took[r] \in [wallet : Int, token : Int, sub : Int]
  BY DEF TypeOK, CountersOK
<1>2. took'[r] = [took[r] EXCEPT !.wallet = took[r].wallet + n]
  BY DEF TypeOK, CountersOK, TakeWallet
<1> QED
  BY <1>1, <1>2 DEF TypeOK, CountersOK, TakeWallet, TookAfter

LEMMA TakeTokenTook ==
    ASSUME TypeOK, NEW r \in Requests, NEW n \in Int, TakeToken(r, n)
    PROVE  TookAfter(r, took[r].wallet, took[r].sub,
                     IF profile[r].playground THEN took[r].token ELSE took[r].token + n)
<1>1. took[r] \in [wallet : Int, token : Int, sub : Int]
  BY DEF TypeOK, CountersOK
<1>2. CASE profile[r].playground
  BY <1>2 DEF TakeToken, TookAfter
<1>3. CASE ~profile[r].playground
  <2>1. took'[r] = [took[r] EXCEPT !.token = took[r].token + n]
    BY <1>3 DEF TypeOK, CountersOK, TakeToken
  <2> QED
    BY <1>1, <1>3, <2>1 DEF TypeOK, CountersOK, TakeToken, TookAfter
<1> QED
  BY <1>2, <1>3

LEMMA TakeSubTook ==
    ASSUME TypeOK, NEW r \in Requests, NEW n \in Int, TakeSub(r, n)
    PROVE  /\ TookAfter(r, took[r].wallet, took'[r].sub, took[r].token)
           /\ took'[r].sub >= took[r].sub + n
<1>1. took[r] \in [wallet : Int, token : Int, sub : Int]
  BY DEF TypeOK, CountersOK
<1>2. sub \in Int /\ took[r].sub \in Int
  BY <1>1 DEF TypeOK, CountersOK
<1>3. took'[r] = [took[r] EXCEPT !.sub = took[r].sub + sub' - sub]
  BY DEF TypeOK, CountersOK, TakeSub
<1>4. sub' \in Int /\ sub' - sub >= n
  BY <1>2 DEF TakeSub
<1>5. took'[r].sub = took[r].sub + sub' - sub
  BY <1>1, <1>3
<1>6. took'[r].sub >= took[r].sub + n
  <2>1. ASSUME NEW x \in Int, NEW y \in Int, NEW z \in Int, y - z >= n
        PROVE  x + y - z >= x + n
    BY <2>1
  <2>2. took[r].sub + sub' - sub >= took[r].sub + n
    BY <1>2, <1>4, <2>1
  <2> QED
    BY <1>5, <2>2
<1> QED
  BY <1>1, <1>3, <1>6 DEF TypeOK, CountersOK, TakeSub, TookAfter

\* The rest of the state of the requests after a step of r.
Others(r) ==
    /\ profile' = profile
    /\ \A q \in Requests \ {r} :
          /\ pc'[q] = pc[q]
          /\ want'[q] = want[q]
          /\ sess'[q] = sess[q]
          /\ took'[q] = took[q]

LEMMA OthersOK ==
    ASSUME NEW r \in Requests, Others(r), NEW q \in Requests \ {r}, RequestOK(q)
    PROVE  RequestOK(q)'
  BY DEF Others, RequestOK, NoDebt, TokenHeld, FundHeld, Pending, Effective, Nothing

LEMMA StepOthers ==
    ASSUME TypeOK, NEW r \in Requests, Step(r) PROVE Others(r)
<1> USE AmountsAreNumbers DEF TypeOK, ControlOK, SessionsOK, Go, Others
<1>0. /\ \A n \in Int : TakeWallet(r, n) => \A q \in Requests \ {r} : took'[q] = took[q]
      /\ \A n \in Int : TakeToken(r, n) => \A q \in Requests \ {r} : took'[q] = took[q]
      /\ \A n \in Int : TakeSub(r, n) => \A q \in Requests \ {r} : took'[q] = took[q]
      /\ Fault => took' = took
  BY TakeWalletTook, TakeTokenTook, TakeSubTook DEF TookAfter, Fault
<1>1. CASE Start(r)
  BY <1>1 DEF Start, OpenSession
<1>2. CASE AdmitWallet(r)
  BY <1>0, <1>2 DEF AdmitWallet, Insufficient, Drop
<1>3. CASE AdmitSubscription(r)
  BY <1>3 DEF AdmitSubscription
<1>4. CASE PreToken(r)
  BY <1>0, <1>4 DEF PreToken, Drop
<1>5. CASE PreFund(r)
  BY <1>0, <1>5 DEF PreFund
<1>6. CASE PreUndo(r)
  BY <1>0, <1>6 DEF PreUndo, Insufficient
<1>7. CASE Attempt(r)
  BY <1>7 DEF Attempt, OpenSession
<1>8. CASE ReserveFunding(r)
  BY <1>0, <1>8 DEF ReserveFunding
<1>9. CASE ReserveToken(r)
  BY <1>0, <1>9 DEF ReserveToken
<1>10. CASE ReserveUndo(r)
  BY <1>0, <1>10 DEF ReserveUndo
<1>11. CASE Upstream(r)
  BY <1>11 DEF Upstream
<1>12. CASE Fail(r)
  BY <1>12 DEF Fail
<1>13. CASE RefundFunding(r)
  BY <1>0, <1>13 DEF RefundFunding
<1>14. CASE RefundExtra(r)
  BY <1>0, <1>14 DEF RefundExtra
<1>15. CASE RefundToken(r)
  BY <1>0, <1>15 DEF RefundToken
<1>16. CASE SettleFunding(r)
  BY <1>0, <1>16 DEF SettleFunding
<1>17. CASE SettleToken(r)
  BY <1>0, <1>17 DEF SettleToken
<1> QED
  BY <1>1, <1>2, <1>3, <1>4, <1>5, <1>6, <1>7, <1>8, <1>9, <1>10, <1>11,
     <1>12, <1>13, <1>14, <1>15, <1>16, <1>17 DEF Step

\* The fields of the session of r after a step.
Session(r, funding, pre, tok, extra, rec, cons) ==
    /\ sess'[r].funding = funding
    /\ sess'[r].preConsumed = pre
    /\ sess'[r].tokenConsumed = tok
    /\ sess'[r].extraReserved = extra
    /\ sess'[r].subPre = rec
    /\ sess'[r].consumed = cons

SameSession(r) ==
    Session(r, sess[r].funding, sess[r].preConsumed, sess[r].tokenConsumed,
            sess[r].extraReserved, sess[r].subPre, sess[r].consumed)

LEMMA FreshAfter ==
    ASSUME SessionsOK, NEW r \in Requests, NEW source, NEW b,
           sess' = [sess EXCEPT ![r] = FreshSession(source, b)]
    PROVE  Session(r, source, 0, 0, 0, 0, 0)
  BY DEF SessionsOK, FreshSession, Session

LEMMA OtherFieldAfter ==
    ASSUME SessionsOK, NEW r \in Requests, NEW b,
           \/ sess' = sess
           \/ sess' = [sess EXCEPT ![r].trusted = b]
           \/ sess' = [sess EXCEPT ![r].settled = b]
           \/ sess' = [sess EXCEPT ![r].refunded = b]
           \/ sess' = [sess EXCEPT ![r].fundingSettled = b]
    PROVE  SameSession(r)
<1>1. sess[r] \in SessionType
  BY DEF SessionsOK
<1>2. \/ sess'[r] = sess[r]
      \/ sess'[r] = [sess[r] EXCEPT !.trusted = b]
      \/ sess'[r] = [sess[r] EXCEPT !.settled = b]
      \/ sess'[r] = [sess[r] EXCEPT !.refunded = b]
      \/ sess'[r] = [sess[r] EXCEPT !.fundingSettled = b]
  BY DEF SessionsOK
<1> QED
  BY <1>1, <1>2 DEF SessionType, SameSession, Session

\* A request that only moves on, with what it had.
LEMMA EndOK ==
    ASSUME TypeOK, NEW r \in Requests, NoDebt(r)', pc'[r] = "closed"
    PROVE  RequestOK(r)'
  BY DEF RequestOK, Running

LEMMA StartOK ==
    ASSUME IInv, NEW r \in Requests, Start(r) \/ AdmitSubscription(r) PROVE RequestOK(r)'
<1>1. TypeOK /\ SessionsOK /\ RequestOK(r)
  BY DEF IInv, TypeOK
<1>2. took' = took /\ profile' = profile /\ pc[r] \in {"start", "admit"}
  BY DEF Start, AdmitSubscription
<1>3. NoDebt(r)'
  BY <1>1, <1>2 DEF RequestOK, NoDebt
<1>4. \/ pc'[r] = "closed"
      \/ pc[r] = "start" /\ pc'[r] = "attempt" /\ sess' = sess
      \/ pc'[r] = "admit" /\ sess' = [sess EXCEPT ![r] =
             FreshSession(FirstSource(r), TokenUnlimited \/ token > TrustQuota)]
      \/ pc[r] = "admit" /\ pc'[r] = "preToken" /\ sess' = sess
  BY <1>1 DEF Start, AdmitSubscription, OpenSession, Go, TypeOK, ControlOK
<1>5. CASE pc'[r] = "closed"
  BY <1>1, <1>3, <1>5, EndOK
<1>6. CASE pc[r] = "start" /\ pc'[r] = "attempt" /\ sess' = sess
  BY <1>1, <1>2, <1>3, <1>6
  DEF RequestOK, Running, FundHeld, TokenHeld, Nothing, NoDebt, Pending
<1>7. CASE pc'[r] = "admit" /\ sess' = [sess EXCEPT ![r] =
             FreshSession(FirstSource(r), TokenUnlimited \/ token > TrustQuota)]
  <2>1. Session(r, FirstSource(r), 0, 0, 0, 0, 0)
    BY <1>1, <1>7, FreshAfter
  <2>2. FirstSource(r) # "none"
    BY DEF FirstSource
  <2> QED
    BY <1>3, <1>7, <2>1, <2>2
    DEF RequestOK, Running, TokenHeld, Nothing, NoDebt, Session
<1>8. CASE pc[r] = "admit" /\ pc'[r] = "preToken" /\ sess' = sess
  BY <1>1, <1>2, <1>3, <1>8 DEF RequestOK, Running, TokenHeld, Nothing, NoDebt
<1> QED
  BY <1>4, <1>5, <1>6, <1>7, <1>8

LEMMA AdmitWalletOK ==
    ASSUME IInv, NEW r \in Requests, AdmitWallet(r) PROVE RequestOK(r)'
<1>1. TypeOK /\ SessionsOK /\ RequestOK(r) /\ pc[r] = "admit" /\ sess[r].funding = "wallet"
  BY DEF IInv, TypeOK, AdmitWallet
<1>2. took' = took /\ profile' = profile /\ want' = want
  BY DEF AdmitWallet, Fault
<1>3. NoDebt(r)'
  BY <1>1, <1>2 DEF RequestOK, NoDebt
<1>4. \/ pc'[r] = "closed"
      \/ /\ pc'[r] = "admit" /\ Fallback(r, sess[r].funding) # "none"
         /\ sess' = [sess EXCEPT ![r] =
             FreshSession(Fallback(r, sess[r].funding), sess[r].tokenTrusted)]
      \/ /\ sess' = [sess EXCEPT ![r].trusted = ShouldTrust(r)]
         /\ pc'[r] = IF ShouldTrust(r) \/ want[r] = 0 THEN "preFund" ELSE "preToken"
  BY <1>1 DEF AdmitWallet, Insufficient, Drop, Go, TypeOK, ControlOK
<1>5. CASE pc'[r] = "closed"
  BY <1>1, <1>3, <1>5, EndOK
<1>6. CASE /\ pc'[r] = "admit" /\ Fallback(r, sess[r].funding) # "none"
           /\ sess' = [sess EXCEPT ![r] =
                FreshSession(Fallback(r, sess[r].funding), sess[r].tokenTrusted)]
  <2>1. Session(r, Fallback(r, sess[r].funding), 0, 0, 0, 0, 0)
    BY <1>1, <1>6, FreshAfter
  <2> QED
    BY <1>3, <1>6, <2>1 DEF RequestOK, Running, TokenHeld, Nothing, NoDebt, Session
<1>7. CASE /\ sess' = [sess EXCEPT ![r].trusted = ShouldTrust(r)]
           /\ pc'[r] = IF ShouldTrust(r) \/ want[r] = 0 THEN "preFund" ELSE "preToken"
  <2>1. SameSession(r)
    BY <1>1, <1>7, OtherFieldAfter
  <2>2. sess'[r].trusted = ShouldTrust(r)
    BY <1>1, <1>7 DEF SessionsOK, SessionType
  <2>3. Nothing(sess'[r]) /\ sess'[r].tokenConsumed = 0 /\ sess'[r].funding = "wallet"
    BY <1>1, <2>1 DEF RequestOK, Nothing, SameSession, Session
  <2>4. pc'[r] = "preFund" => Effective(r)' = 0
    BY <1>2, <1>7, <2>2, <2>3 DEF Effective
  <2> QED
    BY <1>3, <1>7, <2>3, <2>4 DEF RequestOK, Running, TokenHeld, NoDebt
<1> QED
  BY <1>4, <1>5, <1>6, <1>7

\* The numbers of request r, as integers.
LEMMA Amounts ==
    ASSUME IInv, NEW r \in Requests
    PROVE  /\ TypeOK /\ SessionsOK /\ RequestOK(r)
           /\ took[r].wallet \in Int /\ took[r].sub \in Int /\ took[r].token \in Int
           /\ want[r] \in Nat /\ Effective(r) \in Nat
           /\ sess[r].tokenConsumed \in Nat /\ sess[r].extraReserved \in Nat
           /\ sess[r].preConsumed \in Nat /\ sess[r].subPre \in Nat
           /\ sess[r].consumed \in Int /\ sess[r] \in SessionType
           /\ pc \in [Requests -> Labels]
<1>1. TypeOK /\ SessionsOK /\ RequestOK(r) /\ pc \in [Requests -> Labels]
  BY DEF IInv, TypeOK, ControlOK
<1>2. took[r].wallet \in Int /\ took[r].sub \in Int /\ took[r].token \in Int
  BY <1>1 DEF TypeOK, CountersOK
<1> QED
  BY <1>1, <1>2, AmountsAreNumbers

LEMMA PreTokenOK ==
    ASSUME IInv, NEW r \in Requests, PreToken(r) PROVE RequestOK(r)'
<1> DEFINE n == Effective(r)
<1>1. pc[r] = "preToken" /\ profile' = profile /\ want' = want
  BY DEF PreToken
<1>2. /\ TypeOK /\ SessionsOK /\ n \in Nat /\ sess[r] \in SessionType
      /\ NoDebt(r) /\ Nothing(sess[r]) /\ sess[r].tokenConsumed = 0
      /\ sess[r].funding # "none" /\ took[r].token \in Int /\ pc \in [Requests -> Labels]
  BY <1>1, Amounts DEF RequestOK
<1>3. CASE pc' = [pc EXCEPT ![r] = "closed"] /\ took' = took
  BY <1>2, <1>3, EndOK DEF NoDebt
<1>4. CASE /\ TakeToken(r, n)
           /\ sess' = [sess EXCEPT ![r].tokenConsumed = n]
           /\ pc' = [pc EXCEPT ![r] = "preFund"]
  <2>1. TookAfter(r, took[r].wallet, took[r].sub,
                  IF profile[r].playground THEN took[r].token ELSE took[r].token + n)
    BY <1>2, <1>4, TakeTokenTook
  <2>2. sess'[r] = [sess[r] EXCEPT !.tokenConsumed = n]
    BY <1>2, <1>4 DEF SessionsOK
  <2>3. /\ Nothing(sess'[r]) /\ sess'[r].tokenConsumed = n
        /\ sess'[r].funding = sess[r].funding /\ sess'[r].trusted = sess[r].trusted
    BY <1>2, <2>2 DEF SessionType, Nothing
  <2>4. Effective(r)' = n
    BY <1>1, <2>3 DEF Effective
  <2>5. NoDebt(r)' /\ TokenHeld(r)'
    <3> HIDE DEF n
    <3> QED
      BY <1>1, <1>2, <2>1, <2>3 DEF NoDebt, TokenHeld, TookAfter
  <2>6. pc'[r] = "preFund"
    BY <1>2, <1>4
  <2> QED
    BY <1>2, <2>3, <2>4, <2>5, <2>6 DEF RequestOK, Running
<1> QED
  BY <1>3, <1>4 DEF PreToken, Drop, Go, Fault

LEMMA PreFundOK ==
    ASSUME IInv, NEW r \in Requests, PreFund(r) PROVE RequestOK(r)'
<1> DEFINE n == Effective(r)
<1>1. pc[r] = "preFund" /\ profile' = profile /\ want' = want
  BY DEF PreFund
<1>2. /\ TypeOK /\ SessionsOK /\ n \in Nat /\ n \in Int /\ sess[r] \in SessionType
      /\ NoDebt(r) /\ Nothing(sess[r]) /\ sess[r].tokenConsumed = n /\ TokenHeld(r)
      /\ took[r].wallet \in Int /\ took[r].sub \in Int
      /\ pc \in [Requests -> Labels]
  BY <1>1, Amounts DEF RequestOK
<1>3. CASE pc' = [pc EXCEPT ![r] = "preUndo"] /\ took' = took
           /\ (sess' = sess \/ sess' = [sess EXCEPT ![r].funding = "none"])
  <2>1. sess'[r] = sess[r] \/ sess'[r] = [sess[r] EXCEPT !.funding = "none"]
    BY <1>2, <1>3 DEF SessionsOK
  <2>2. Nothing(sess'[r]) /\ sess'[r].tokenConsumed = sess[r].tokenConsumed
    BY <1>2, <2>1 DEF SessionType, Nothing
  <2> QED
    BY <1>1, <1>2, <1>3, <2>2 DEF RequestOK, Running, NoDebt, TokenHeld
<1>4. CASE /\ sess[r].funding = "wallet"
           /\ TakeWallet(r, n)
           /\ sess' = [sess EXCEPT ![r].consumed = n, ![r].preConsumed = n]
           /\ pc' = [pc EXCEPT ![r] = "attempt"]
  <2>1. TookAfter(r, took[r].wallet + n, took[r].sub, took[r].token)
    BY <1>2, <1>4, TakeWalletTook
  <2>2. sess'[r] = [sess[r] EXCEPT !.consumed = n, !.preConsumed = n]
    BY <1>2, <1>4 DEF SessionsOK
  <2>3. Session(r, "wallet", n, n, 0, 0, n)
    <3> HIDE DEF n
    <3>1. /\ sess'[r].funding = sess[r].funding
          /\ sess'[r].tokenConsumed = sess[r].tokenConsumed
          /\ sess'[r].extraReserved = sess[r].extraReserved
          /\ sess'[r].subPre = sess[r].subPre
      BY <1>2, <2>2 DEF SessionType
    <3>2. sess'[r].preConsumed = n
      BY <1>2, <2>2 DEF SessionType
    <3>3. sess'[r].consumed = n
      BY <1>2, <2>2 DEF SessionType
    <3> QED
      BY <1>2, <1>4, <3>1, <3>2, <3>3 DEF Session, Nothing
  <2>4. pc'[r] = "attempt"
    BY <1>2, <1>4
  <2> HIDE DEF n
  <2> QED
    BY <1>1, <1>2, <2>1, <2>3, <2>4
    DEF RequestOK, Running, NoDebt, TokenHeld, FundHeld, TookAfter, Session, Pending
<1>5. CASE /\ sess[r].funding # "wallet"
           /\ FundAccepts(r, n)
           /\ TakeSub(r, n)
           /\ sess' = [sess EXCEPT ![r].subPre = n, ![r].preConsumed = n]
           /\ pc' = [pc EXCEPT ![r] = "attempt"]
  <2>1. /\ TookAfter(r, took[r].wallet, took'[r].sub, took[r].token)
        /\ took'[r].sub >= took[r].sub + n
    BY <1>2, <1>5, TakeSubTook
  <2>2. sess'[r] = [sess[r] EXCEPT !.subPre = n, !.preConsumed = n]
    BY <1>2, <1>5 DEF SessionsOK
  <2>3. Session(r, sess[r].funding, n, n, 0, n, 0)
    <3> HIDE DEF n
    <3>1. /\ sess'[r].funding = sess[r].funding
          /\ sess'[r].tokenConsumed = sess[r].tokenConsumed
          /\ sess'[r].extraReserved = sess[r].extraReserved
          /\ sess'[r].consumed = sess[r].consumed
      BY <1>2, <2>2 DEF SessionType
    <3>2. sess'[r].preConsumed = n
      BY <1>2, <2>2 DEF SessionType
    <3>3. sess'[r].subPre = n
      BY <1>2, <2>2 DEF SessionType
    <3> QED
      BY <1>2, <1>5, <3>1, <3>2, <3>3 DEF Session, Nothing
  <2>4. pc'[r] = "attempt"
    BY <1>2, <1>5
  <2>5. took'[r].sub \in Int
    BY StepCounters DEF Step, CountersOK, IInv
  <2>6. sess[r].funding # "none"
    BY <1>1, Amounts DEF RequestOK
  <2> HIDE DEF n
  <2> QED
    BY <1>1, <1>2, <1>5, <2>1, <2>3, <2>4, <2>5, <2>6
    DEF RequestOK, Running, NoDebt, TokenHeld, FundHeld, TookAfter, Session, Pending
<1> QED
  BY <1>3, <1>4, <1>5 DEF PreFund, Go, Fault

LEMMA PreUndoOK ==
    ASSUME IInv, NEW r \in Requests, PreUndo(r) PROVE RequestOK(r)'
<1> DEFINE next == Fallback(r, sess[r].funding)
           n == sess[r].tokenConsumed
<1>1. pc[r] = "preUndo" /\ profile' = profile
  BY DEF PreUndo
<1>2. /\ TypeOK /\ SessionsOK /\ NoDebt(r) /\ TokenHeld(r)
      /\ n \in Nat /\ took[r].token \in Int /\ pc \in [Requests -> Labels]
  BY <1>1, Amounts DEF RequestOK
<1>3. NoDebt(r)'
  <2>1. CASE Fault
    BY <1>2, <2>1 DEF Fault, NoDebt
  <2>2. CASE TakeToken(r, -n)
    <3>1. -n \in Int
      BY <1>2
    <3>2. TookAfter(r, took[r].wallet, took[r].sub,
                    IF profile[r].playground THEN took[r].token ELSE took[r].token + (-n))
      BY <1>2, <2>2, <3>1, TakeTokenTook
    <3>3. ~profile[r].playground => took[r].token + (-n) >= 0
      BY <1>2 DEF TokenHeld
    <3> QED
      BY <1>2, <3>2, <3>3 DEF NoDebt, TookAfter
  <2> QED
    BY <2>1, <2>2 DEF PreUndo
<1>4. /\ pc' = [pc EXCEPT ![r] = IF next = "none" THEN "closed" ELSE "admit"]
      /\ sess' = [sess EXCEPT ![r] = FreshSession(next, sess[r].tokenTrusted)]
  BY DEF PreUndo, Insufficient, Go
<1>5. Session(r, next, 0, 0, 0, 0, 0)
  BY <1>2, <1>4, FreshAfter
<1>6. CASE next = "none"
  BY <1>2, <1>3, <1>4, <1>6, EndOK
<1>7. CASE next # "none"
  <2>1. pc'[r] = "admit"
    BY <1>2, <1>4, <1>7
  <2> QED
    BY <1>3, <1>5, <1>7, <2>1 DEF RequestOK, Running, TokenHeld, Nothing, NoDebt, Session
<1> QED
  BY <1>6, <1>7

\* A step that leaves the counters of r and the amounts of its session alone,
\* and that is not in the middle of a reservation.
LEMMA MoveOK ==
    ASSUME IInv, NEW r \in Requests, took' = took, profile' = profile,
           SameSession(r), TokenHeld(r), pc[r] \in Running, FundHeld(r),
           pc'[r] \in {"attempt", "upstream", "fail", "setFund", "closed"}
    PROVE  RequestOK(r)'
<1>1. /\ NoDebt(r)
      /\ took[r].wallet \in Int /\ took[r].sub \in Int /\ want[r] \in Nat
      /\ sess[r].preConsumed \in Nat
  BY Amounts DEF RequestOK
<1>2. took[r].wallet >= sess[r].preConsumed + Pending(r) =>
          took[r].wallet >= sess[r].preConsumed
  BY <1>1 DEF Pending
<1>3. took[r].sub >= sess[r].preConsumed + Pending(r) =>
          took[r].sub >= sess[r].preConsumed
  BY <1>1 DEF Pending
<1>4. Pending(r)' = 0
  BY DEF Pending
<1>5. FundHeld(r)'
  BY <1>1, <1>2, <1>3, <1>4 DEF FundHeld, SameSession, Session
<1>6. NoDebt(r)' /\ TokenHeld(r)'
  BY <1>1 DEF NoDebt, TokenHeld, SameSession, Session
<1> QED
  BY <1>5, <1>6 DEF RequestOK

LEMMA AttemptOK ==
    ASSUME IInv, NEW r \in Requests, Attempt(r) \/ Upstream(r) PROVE RequestOK(r)'
<1>1. pc[r] \in {"attempt", "upstream"} /\ profile' = profile /\ took' = took
  BY DEF Attempt, Upstream
<1>2. /\ TypeOK /\ SessionsOK /\ NoDebt(r) /\ TokenHeld(r) /\ FundHeld(r)
      /\ pc \in [Requests -> Labels] /\ pc[r] \in Running
  BY <1>1, Amounts DEF RequestOK, Running
<1>3. \/ /\ sess' = sess
         /\ pc'[r] \in {"attempt", "upstream", "fail", "setFund", "closed"}
      \/ /\ sess' = [sess EXCEPT ![r] =
              FreshSession(FirstSource(r), TokenUnlimited \/ token > TrustQuota)]
         /\ pc'[r] = "admit"
      \/ /\ sess' = sess /\ pc'[r] = "resFund" /\ sess[r].funding # "none"
         /\ pc[r] = "attempt"
  BY <1>2 DEF Attempt, Upstream, OpenSession, Go
<1>4. CASE /\ sess' = sess
           /\ pc'[r] \in {"attempt", "upstream", "fail", "setFund", "closed"}
  <2>1. SameSession(r)
    BY <1>2, <1>4, OtherFieldAfter
  <2> QED
    BY <1>1, <1>2, <1>4, <2>1, MoveOK
<1>5. CASE /\ sess' = [sess EXCEPT ![r] =
                FreshSession(FirstSource(r), TokenUnlimited \/ token > TrustQuota)]
           /\ pc'[r] = "admit"
  <2>1. Session(r, FirstSource(r), 0, 0, 0, 0, 0)
    BY <1>2, <1>5, FreshAfter
  <2>2. FirstSource(r) # "none"
    BY DEF FirstSource
  <2> QED
    BY <1>1, <1>2, <1>5, <2>1, <2>2
    DEF RequestOK, Running, TokenHeld, Nothing, NoDebt, Session
<1>6. CASE /\ sess' = sess /\ pc'[r] = "resFund" /\ sess[r].funding # "none"
           /\ pc[r] = "attempt"
  <2>1. Pending(r) = 0 /\ Pending(r)' = 0
    BY <1>6 DEF Pending
  <2> QED
    BY <1>1, <1>2, <1>6, <2>1 DEF RequestOK, Running, TokenHeld, FundHeld, NoDebt
<1> QED
  BY <1>3, <1>4, <1>5, <1>6

\* The numbers of the history after a step.
LEMMA TookIsInt ==
    ASSUME IInv, NEW r \in Requests, Step(r)
    PROVE  took'[r].wallet \in Int /\ took'[r].sub \in Int /\ took'[r].token \in Int
<1>1. CountersOK'
  BY StepCounters DEF IInv
<1> QED
  BY <1>1 DEF CountersOK

LEMMA ReserveFundingOK ==
    ASSUME IInv, NEW r \in Requests, ReserveFunding(r) PROVE RequestOK(r)'
<1> DEFINE n == want[r]
<1>1. pc[r] = "resFund" /\ profile' = profile /\ want' = want
  BY DEF ReserveFunding
<1>2. /\ TypeOK /\ SessionsOK /\ NoDebt(r) /\ TokenHeld(r) /\ FundHeld(r)
      /\ n \in Nat /\ n \in Int /\ sess[r] \in SessionType
      /\ took[r].wallet \in Int /\ took[r].sub \in Int
      /\ sess[r].consumed \in Int /\ sess[r].preConsumed \in Nat
      /\ pc \in [Requests -> Labels] /\ pc[r] \in Running
      /\ sess[r].funding # "none"
  BY <1>1, Amounts DEF RequestOK, Running
<1>3. Pending(r) = 0
  BY <1>1 DEF Pending
<1>4. CASE pc' = [pc EXCEPT ![r] = "fail"] /\ took' = took /\ sess' = sess
  <2>1. SameSession(r) /\ pc'[r] = "fail"
    BY <1>2, <1>4, OtherFieldAfter
  <2> QED
    BY <1>1, <1>2, <1>4, <2>1, MoveOK
<1>5. CASE /\ sess[r].funding = "wallet"
           /\ TakeWallet(r, n)
           /\ \/ sess' = [sess EXCEPT ![r].consumed = n]
              \/ sess' = [sess EXCEPT ![r].consumed = @ + n]
           /\ pc' = [pc EXCEPT ![r] = "resToken"]
  <2>1. TookAfter(r, took[r].wallet + n, took[r].sub, took[r].token)
    BY <1>2, <1>5, TakeWalletTook
  <2>2. \/ sess'[r] = [sess[r] EXCEPT !.consumed = n]
        \/ sess'[r] = [sess[r] EXCEPT !.consumed = sess[r].consumed + n]
    BY <1>2, <1>5 DEF SessionsOK
  <2>3. /\ sess'[r].funding = sess[r].funding
        /\ sess'[r].preConsumed = sess[r].preConsumed
        /\ sess'[r].tokenConsumed = sess[r].tokenConsumed
        /\ sess'[r].subPre = sess[r].subPre
    BY <1>2, <2>2 DEF SessionType
  <2>4. sess'[r].consumed = n \/ sess'[r].consumed = sess[r].consumed + n
    BY <1>2, <2>2 DEF SessionType
  <2>5. pc'[r] = "resToken" /\ Pending(r)' = n
    BY <1>1, <1>2, <1>5 DEF Pending
  <2> HIDE DEF n
  <2>6. took'[r].wallet >= 0 /\ took'[r].wallet >= sess'[r].consumed
    BY <1>2, <1>5, <2>1, <2>4 DEF NoDebt, FundHeld, TookAfter
  <2>7. took'[r].wallet >= sess[r].preConsumed + n
    BY <1>2, <1>3, <1>5, <2>1 DEF FundHeld, TookAfter
  <2>8. FundHeld(r)'
    BY <1>2, <1>5, <2>3, <2>5, <2>6, <2>7 DEF FundHeld
  <2>9. NoDebt(r)' /\ TokenHeld(r)'
    BY <1>1, <1>2, <2>1, <2>3, <2>6 DEF NoDebt, TokenHeld, TookAfter
  <2> QED
    BY <1>2, <2>3, <2>5, <2>8, <2>9 DEF RequestOK
<1>6. CASE /\ sess[r].funding = "subscription"
           /\ TakeSub(r, n)
           /\ sess' = sess
           /\ pc' = [pc EXCEPT ![r] = "resToken"]
  <2>1. /\ TookAfter(r, took[r].wallet, took'[r].sub, took[r].token)
        /\ took'[r].sub >= took[r].sub + n
    BY <1>2, <1>6, TakeSubTook
  <2>2. pc'[r] = "resToken" /\ Pending(r)' = n
    BY <1>1, <1>2, <1>6 DEF Pending
  <2>3. took'[r].sub \in Int
    BY TookIsInt DEF Step
  <2> HIDE DEF n
  <2>4. took'[r].sub >= 0 /\ took'[r].sub >= sess[r].preConsumed + n
    BY <1>2, <1>3, <1>6, <2>1, <2>3 DEF NoDebt, FundHeld
  <2>5. FundHeld(r)'
    BY <1>2, <1>6, <2>2, <2>4 DEF FundHeld
  <2>6. NoDebt(r)' /\ TokenHeld(r)'
    BY <1>1, <1>2, <1>6, <2>1, <2>4 DEF NoDebt, TokenHeld, TookAfter
  <2> QED
    BY <1>2, <1>6, <2>2, <2>5, <2>6 DEF RequestOK
<1> QED
  BY <1>4, <1>5, <1>6 DEF ReserveFunding, Go, Fault

LEMMA ReserveTokenOK ==
    ASSUME IInv, NEW r \in Requests, ReserveToken(r) PROVE RequestOK(r)'
<1> DEFINE n == want[r]
<1>1. pc[r] = "resToken" /\ profile' = profile /\ want' = want
  BY DEF ReserveToken
<1>2. /\ TypeOK /\ SessionsOK /\ NoDebt(r) /\ TokenHeld(r) /\ FundHeld(r)
      /\ n \in Nat /\ n \in Int /\ sess[r] \in SessionType
      /\ took[r].wallet \in Int /\ took[r].sub \in Int /\ took[r].token \in Int
      /\ sess[r].consumed \in Int /\ sess[r].preConsumed \in Nat
      /\ sess[r].tokenConsumed \in Nat /\ sess[r].extraReserved \in Nat
      /\ sess[r].subPre \in Nat /\ pc \in [Requests -> Labels]
      /\ sess[r].funding # "none"
  BY <1>1, Amounts DEF RequestOK, Running
<1>3. Pending(r) = n
  BY <1>1 DEF Pending
<1>4. CASE pc' = [pc EXCEPT ![r] = "resUndo"] /\ took' = took /\ sess' = sess
  <2>1. pc'[r] = "resUndo" /\ Pending(r)' = n
    BY <1>1, <1>2, <1>4 DEF Pending
  <2>2. FundHeld(r)'
    BY <1>2, <1>3, <1>4, <2>1 DEF FundHeld
  <2> QED
    BY <1>1, <1>2, <1>4, <2>1, <2>2 DEF RequestOK, NoDebt, TokenHeld
<1>5. CASE /\ TakeToken(r, n)
           /\ sess' = [sess EXCEPT ![r].preConsumed = @ + n,
                                   ![r].tokenConsumed = @ + n,
                                   ![r].extraReserved = @ + n,
                                   ![r].trusted = @ /\ ~profile[r].image]
           /\ pc' = [pc EXCEPT ![r] = "upstream"]
  <2>1. TookAfter(r, took[r].wallet, took[r].sub,
                  IF profile[r].playground THEN took[r].token ELSE took[r].token + n)
    BY <1>2, <1>5, TakeTokenTook
  <2>2. sess'[r] = [sess[r] EXCEPT !.preConsumed = sess[r].preConsumed + n,
                                   !.tokenConsumed = sess[r].tokenConsumed + n,
                                   !.extraReserved = sess[r].extraReserved + n,
                                   !.trusted = sess[r].trusted /\ ~profile[r].image]
    BY <1>2, <1>5 DEF SessionsOK, SessionType
  <2> HIDE DEF n
  <2>3. /\ sess'[r].funding = sess[r].funding
        /\ sess'[r].subPre = sess[r].subPre
        /\ sess'[r].consumed = sess[r].consumed
    BY <1>2, <2>2 DEF SessionType
  <2>4. /\ sess'[r].preConsumed = sess[r].preConsumed + n
        /\ sess'[r].tokenConsumed = sess[r].tokenConsumed + n
        /\ sess'[r].extraReserved = sess[r].extraReserved + n
    BY <1>2, <2>2 DEF SessionType
  <2>5. pc'[r] = "upstream" /\ Pending(r)' = 0
    BY <1>2, <1>5 DEF Pending
  <2>6. sess[r].funding = "wallet" => took[r].wallet >= sess[r].preConsumed + n
    BY <1>2, <1>3 DEF FundHeld
  <2>7. sess[r].funding # "wallet" => took[r].sub >= sess[r].preConsumed + n
    BY <1>2, <1>3 DEF FundHeld
  <2>8. FundHeld(r)'
    BY <1>2, <2>1, <2>3, <2>4, <2>5, <2>6, <2>7 DEF FundHeld, TookAfter
  <2>9. NoDebt(r)' /\ TokenHeld(r)'
    BY <1>1, <1>2, <2>1, <2>4 DEF NoDebt, TokenHeld, TookAfter
  <2> QED
    BY <2>5, <2>8, <2>9 DEF RequestOK
<1> QED
  BY <1>4, <1>5 DEF ReserveToken, Go, Fault

LEMMA ReserveUndoOK ==
    ASSUME IInv, NEW r \in Requests, ReserveUndo(r) PROVE RequestOK(r)'
<1> DEFINE n == want[r]
<1>1. pc[r] = "resUndo" /\ profile' = profile /\ want' = want
  BY DEF ReserveUndo
<1>2. /\ TypeOK /\ SessionsOK /\ NoDebt(r) /\ TokenHeld(r) /\ FundHeld(r)
      /\ n \in Nat /\ -n \in Int /\ sess[r] \in SessionType
      /\ took[r].wallet \in Int /\ took[r].sub \in Int
      /\ sess[r].consumed \in Int /\ sess[r].preConsumed \in Nat
      /\ pc \in [Requests -> Labels] /\ pc[r] \in Running
  BY <1>1, Amounts DEF RequestOK, Running
<1>3. Pending(r) = n
  BY <1>1 DEF Pending
<1>4. pc'[r] = "fail" /\ Pending(r)' = 0
  BY <1>2 DEF ReserveUndo, Go, Pending
<1>5. CASE took' = took /\ sess' = sess
  <2>1. SameSession(r)
    BY <1>2, <1>5, OtherFieldAfter
  <2> QED
    BY <1>1, <1>2, <1>4, <1>5, <2>1, MoveOK
<1>6. CASE /\ sess[r].funding = "wallet"
           /\ TakeWallet(r, -n)
           /\ sess' = [sess EXCEPT ![r].consumed = @ - n]
  <2>1. TookAfter(r, took[r].wallet + (-n), took[r].sub, took[r].token)
    BY <1>2, <1>6, TakeWalletTook
  <2>2. sess'[r] = [sess[r] EXCEPT !.consumed = sess[r].consumed - n]
    BY <1>2, <1>6 DEF SessionsOK
  <2> HIDE DEF n
  <2>3. /\ sess'[r].funding = sess[r].funding
        /\ sess'[r].preConsumed = sess[r].preConsumed
        /\ sess'[r].tokenConsumed = sess[r].tokenConsumed
        /\ sess'[r].subPre = sess[r].subPre
        /\ sess'[r].consumed = sess[r].consumed - n
    BY <1>2, <2>2 DEF SessionType
  <2>4. took'[r].wallet >= sess[r].consumed - n
    BY <1>2, <1>6, <2>1 DEF FundHeld, TookAfter
  <2>5. took'[r].wallet >= sess[r].preConsumed /\ took'[r].wallet >= 0
    BY <1>2, <1>3, <1>6, <2>1 DEF FundHeld, TookAfter
  <2>6. FundHeld(r)'
    BY <1>2, <1>4, <1>6, <2>3, <2>4, <2>5 DEF FundHeld
  <2>7. NoDebt(r)' /\ TokenHeld(r)'
    BY <1>1, <1>2, <2>1, <2>3, <2>5 DEF NoDebt, TokenHeld, TookAfter
  <2> QED
    BY <1>4, <2>6, <2>7 DEF RequestOK
<1>7. CASE /\ sess[r].funding = "subscription"
           /\ TakeSub(r, -n)
           /\ sess' = sess
  <2>1. /\ TookAfter(r, took[r].wallet, took'[r].sub, took[r].token)
        /\ took'[r].sub >= took[r].sub + (-n)
    BY <1>2, <1>7, TakeSubTook
  <2>2. took'[r].sub \in Int
    BY TookIsInt DEF Step
  <2> HIDE DEF n
  <2>3. took'[r].sub >= sess[r].preConsumed /\ took'[r].sub >= 0
    BY <1>2, <1>3, <1>7, <2>1, <2>2 DEF FundHeld
  <2>4. FundHeld(r)'
    BY <1>2, <1>4, <1>7, <2>3 DEF FundHeld
  <2>5. NoDebt(r)' /\ TokenHeld(r)'
    BY <1>1, <1>2, <1>7, <2>1, <2>3 DEF NoDebt, TokenHeld, TookAfter
  <2> QED
    BY <1>4, <2>4, <2>5 DEF RequestOK
<1> QED
  BY <1>5, <1>6, <1>7 DEF ReserveUndo, Fault

LEMMA FailOK ==
    ASSUME IInv, NEW r \in Requests, Fail(r) PROVE RequestOK(r)'
<1>1. pc[r] = "fail" /\ profile' = profile /\ took' = took
  BY DEF Fail
<1>2. /\ TypeOK /\ SessionsOK /\ NoDebt(r) /\ TokenHeld(r) /\ FundHeld(r)
      /\ pc \in [Requests -> Labels] /\ Pending(r) = 0
      /\ took[r].sub \in Int /\ sess[r].preConsumed \in Nat
  BY <1>1, Amounts DEF RequestOK, Running, Pending
<1>3. CASE pc'[r] = "closed"
  BY <1>1, <1>2, <1>3, EndOK DEF NoDebt
<1>4. CASE pc'[r] = "refFund" /\ sess' = [sess EXCEPT ![r].refunded = TRUE]
  <2>1. SameSession(r)
    BY <1>2, <1>4, OtherFieldAfter
  <2>2. IF sess'[r].funding = "wallet" THEN took'[r].wallet >= sess'[r].consumed
        ELSE took'[r].sub >= sess'[r].subPre + sess'[r].extraReserved
    BY <1>1, <1>2, <2>1 DEF FundHeld, SameSession, Session
  <2> QED
    BY <1>1, <1>2, <1>4, <2>1, <2>2
    DEF RequestOK, Running, NoDebt, TokenHeld, SameSession, Session
<1> QED
  BY <1>2, <1>3, <1>4 DEF Fail, Go

LEMMA RefundFundingOK ==
    ASSUME IInv, NEW r \in Requests, RefundFunding(r) PROVE RequestOK(r)'
<1>1. /\ pc[r] = "refFund" /\ profile' = profile /\ sess' = sess
  BY DEF RefundFunding
<1>2. /\ TypeOK /\ NoDebt(r) /\ TokenHeld(r) /\ pc \in [Requests -> Labels]
      /\ took[r].wallet \in Int /\ took[r].sub \in Int
      /\ sess[r].consumed \in Int /\ sess[r].subPre \in Nat
      /\ sess[r].extraReserved \in Nat
      /\ sess[r].funding = "wallet" => took[r].wallet >= sess[r].consumed
      /\ sess[r].funding # "wallet" =>
            took[r].sub >= sess[r].subPre + sess[r].extraReserved
  BY <1>1, Amounts DEF RequestOK
<1>3. /\ pc'[r] \in {"refExtra", "refToken"}
      /\ pc'[r] = "refExtra" => sess[r].funding # "wallet"
  BY <1>2 DEF RefundFunding, Go
<1>4. SUFFICES /\ took'[r].wallet >= 0 /\ took'[r].sub >= 0
               /\ took'[r].token = took[r].token
               /\ sess[r].funding # "wallet" => took'[r].sub >= sess[r].extraReserved
  BY <1>1, <1>2, <1>3, <1>4 DEF RequestOK, Running, NoDebt, TokenHeld
<1>5. CASE Fault
  BY <1>2, <1>5 DEF Fault, NoDebt
<1>6. CASE sess[r].funding = "wallet" /\ TakeWallet(r, -WalletRefund(r))
  <2>1. -WalletRefund(r) \in Int /\ took[r].wallet + (-WalletRefund(r)) >= 0
    BY <1>2, <1>6 DEF WalletRefund, NoDebt
  <2>2. TookAfter(r, took[r].wallet + (-WalletRefund(r)), took[r].sub, took[r].token)
    BY <1>2, <1>6, <2>1, TakeWalletTook
  <2> QED
    BY <1>2, <1>6, <2>1, <2>2 DEF NoDebt, TookAfter
<1>7. CASE sess[r].funding # "wallet" /\ TakeSub(r, -sess[r].subPre)
  <2>1. -sess[r].subPre \in Int
    BY <1>2
  <2>2. /\ TookAfter(r, took[r].wallet, took'[r].sub, took[r].token)
        /\ took'[r].sub >= took[r].sub + (-sess[r].subPre)
    BY <1>2, <1>7, <2>1, TakeSubTook
  <2>3. took'[r].sub \in Int
    BY TookIsInt DEF Step
  <2>4. took'[r].sub >= sess[r].extraReserved /\ took'[r].sub >= 0
    BY <1>2, <1>7, <2>2, <2>3
  <2> QED
    BY <1>2, <2>2, <2>4 DEF NoDebt, TookAfter
<1> QED
  BY <1>5, <1>6, <1>7 DEF RefundFunding

LEMMA RefundExtraOK ==
    ASSUME IInv, NEW r \in Requests, RefundExtra(r) PROVE RequestOK(r)'
<1> DEFINE n == sess[r].extraReserved
<1>1. /\ pc[r] = "refExtra" /\ profile' = profile /\ sess' = sess
  BY DEF RefundExtra
<1>2. /\ TypeOK /\ NoDebt(r) /\ TokenHeld(r) /\ pc \in [Requests -> Labels]
      /\ took[r].sub \in Int /\ n \in Nat /\ -n \in Int /\ took[r].sub >= n
  BY <1>1, Amounts DEF RequestOK
<1>3. pc'[r] = "refToken"
  BY <1>2 DEF RefundExtra, Go
<1>4. SUFFICES /\ took'[r].wallet >= 0 /\ took'[r].sub >= 0
               /\ took'[r].token = took[r].token
  BY <1>1, <1>2, <1>3, <1>4 DEF RequestOK, Running, NoDebt, TokenHeld
<1>5. CASE Fault
  BY <1>2, <1>5 DEF Fault, NoDebt
<1>6. CASE TakeSub(r, -n)
  <2>1. /\ TookAfter(r, took[r].wallet, took'[r].sub, took[r].token)
        /\ took'[r].sub >= took[r].sub + (-n)
    BY <1>2, <1>6, TakeSubTook
  <2>2. took'[r].sub \in Int
    BY TookIsInt DEF Step
  <2> HIDE DEF n
  <2>3. took'[r].sub >= 0
    BY <1>2, <2>1, <2>2
  <2> QED
    BY <1>2, <2>1, <2>3 DEF NoDebt, TookAfter
<1> QED
  BY <1>5, <1>6 DEF RefundExtra

LEMMA RefundTokenOK ==
    ASSUME IInv, NEW r \in Requests, RefundToken(r) PROVE RequestOK(r)'
<1> DEFINE n == sess[r].tokenConsumed
<1>1. pc[r] = "refToken"
  BY DEF RefundToken
<1>2. /\ TypeOK /\ NoDebt(r) /\ TokenHeld(r) /\ pc \in [Requests -> Labels]
      /\ took[r].token \in Int /\ n \in Nat /\ -n \in Int
  BY <1>1, Amounts DEF RequestOK
<1>3. pc'[r] = "closed"
  BY <1>2 DEF RefundToken, Go
<1>4. SUFFICES NoDebt(r)'
  BY <1>2, <1>3, <1>4, EndOK
<1>5. CASE Fault
  BY <1>2, <1>5 DEF Fault, NoDebt
<1>6. CASE TakeToken(r, -n)
  <2>1. TookAfter(r, took[r].wallet, took[r].sub,
                  IF profile[r].playground THEN took[r].token ELSE took[r].token + (-n))
    BY <1>2, <1>6, TakeTokenTook
  <2>2. ~profile[r].playground => took[r].token + (-n) >= 0
    BY <1>2 DEF TokenHeld
  <2> QED
    BY <1>2, <2>1, <2>2 DEF NoDebt, TookAfter
<1> QED
  BY <1>5, <1>6 DEF RefundToken

LEMMA SettleFundingOK ==
    ASSUME IInv, NEW r \in Requests, SettleFunding(r) PROVE RequestOK(r)'
<1> DEFINE delta == want[r] - sess[r].preConsumed
<1>1. pc[r] = "setFund" /\ profile' = profile
  BY DEF SettleFunding
<1>2. /\ TypeOK /\ SessionsOK /\ NoDebt(r) /\ TokenHeld(r) /\ FundHeld(r)
      /\ pc \in [Requests -> Labels] /\ Pending(r) = 0
      /\ took[r].wallet \in Int /\ took[r].sub \in Int
      /\ want[r] \in Nat /\ sess[r].preConsumed \in Nat /\ delta \in Int
  BY <1>1, Amounts DEF RequestOK, Running, Pending
<1>3. CASE pc' = [pc EXCEPT ![r] = "closed"] /\ took' = took
  BY <1>2, <1>3, EndOK DEF NoDebt
<1>4. CASE /\ \/ sess[r].funding = "wallet" /\ TakeWallet(r, delta)
              \/ sess[r].funding = "subscription" /\ TakeSub(r, delta)
           /\ sess' = [sess EXCEPT ![r].fundingSettled = TRUE]
           /\ pc' = [pc EXCEPT ![r] = "setToken"]
  <2>1. SameSession(r) /\ pc'[r] = "setToken"
    BY <1>2, <1>4, OtherFieldAfter
  <2>2. sess'[r].tokenConsumed = sess'[r].preConsumed
    BY <1>2, <2>1 DEF FundHeld, SameSession, Session
  <2>3. SUFFICES /\ took'[r].wallet >= 0 /\ took'[r].sub >= 0
                 /\ took'[r].token = took[r].token
    BY <1>1, <1>2, <2>1, <2>2, <2>3
    DEF RequestOK, Running, NoDebt, TokenHeld, SameSession, Session
  <2>4. CASE sess[r].funding = "wallet" /\ TakeWallet(r, delta)
    <3>1. TookAfter(r, took[r].wallet + delta, took[r].sub, took[r].token)
      BY <1>2, <2>4, TakeWalletTook
    <3>2. took[r].wallet + delta >= 0
      BY <1>2, <2>4 DEF FundHeld
    <3> QED
      BY <1>2, <3>1, <3>2 DEF NoDebt, TookAfter
  <2>5. CASE sess[r].funding = "subscription" /\ TakeSub(r, delta)
    <3>1. /\ TookAfter(r, took[r].wallet, took'[r].sub, took[r].token)
          /\ took'[r].sub >= took[r].sub + delta
      BY <1>2, <2>5, TakeSubTook
    <3>2. took[r].sub + delta >= 0
      BY <1>2, <2>5 DEF FundHeld
    <3>3. took'[r].sub \in Int
      BY TookIsInt DEF Step
    <3>4. took'[r].sub >= 0
      BY <1>2, <3>1, <3>2, <3>3
    <3> QED
      BY <1>2, <3>1, <3>4 DEF NoDebt, TookAfter
  <2> QED
    BY <1>4, <2>4, <2>5
<1> QED
  BY <1>3, <1>4 DEF SettleFunding, Go, Fault

LEMMA SettleTokenOK ==
    ASSUME IInv, NEW r \in Requests, SettleToken(r) PROVE RequestOK(r)'
<1> DEFINE delta == want[r] - sess[r].preConsumed
<1>1. pc[r] = "setToken"
  BY DEF SettleToken
<1>2. /\ TypeOK /\ NoDebt(r) /\ TokenHeld(r) /\ pc \in [Requests -> Labels]
      /\ took[r].token \in Int /\ want[r] \in Nat /\ sess[r].preConsumed \in Nat
      /\ delta \in Int /\ sess[r].tokenConsumed = sess[r].preConsumed
  BY <1>1, Amounts DEF RequestOK
<1>3. pc'[r] = "closed"
  BY <1>2 DEF SettleToken, Go
<1>4. SUFFICES NoDebt(r)'
  BY <1>2, <1>3, <1>4, EndOK
<1>5. CASE Fault
  BY <1>2, <1>5 DEF Fault, NoDebt
<1>6. CASE TakeToken(r, delta)
  <2>1. TookAfter(r, took[r].wallet, took[r].sub,
                  IF profile[r].playground THEN took[r].token ELSE took[r].token + delta)
    BY <1>2, <1>6, TakeTokenTook
  <2>2. ~profile[r].playground => took[r].token + delta >= 0
    BY <1>2 DEF TokenHeld
  <2> QED
    BY <1>2, <2>1, <2>2 DEF NoDebt, TookAfter
<1> QED
  BY <1>5, <1>6 DEF SettleToken

\* Every statement that adds to the usage of the subscription checks the plan.
LEMMA PlanOK ==
    ASSUME IInv, NEW r \in Requests, Step(r) PROVE WithinPlan'
<1>1. /\ TypeOK /\ WithinPlan /\ SubTotal \in Nat /\ sub \in Nat
      /\ want[r] \in Nat /\ Effective(r) \in Nat
      /\ sess[r].preConsumed \in Nat /\ sess[r].subPre \in Nat
      /\ sess[r].extraReserved \in Nat
  BY Amounts, ConstantsAssumption DEF IInv, TypeOK, CountersOK
<1>2. CASE sub' = sub
  BY <1>1, <1>2 DEF WithinPlan
<1>3. ASSUME NEW n \in Int, TakeSub(r, n), SubAccepts(n) \/ n <= 0 PROVE WithinPlan'
  BY <1>1, <1>3 DEF TakeSub, SubAccepts, WithinPlan
<1>4. CASE PreFund(r)
  <2>1. CASE TakeSub(r, Effective(r)) /\ SubAccepts(Effective(r))
    BY <1>1, <1>3, <2>1
  <2> QED
    BY <1>2, <1>4, <2>1 DEF PreFund, FundAccepts, TakeWallet, Fault
<1>5. CASE ReserveFunding(r)
  <2>1. CASE TakeSub(r, want[r]) /\ SubAccepts(want[r])
    BY <1>1, <1>3, <2>1
  <2> QED
    BY <1>2, <1>5, <2>1 DEF ReserveFunding, TakeWallet, Fault
<1>6. CASE ReserveUndo(r)
  <2>1. -want[r] \in Int /\ -want[r] <= 0
    BY <1>1
  <2>2. CASE TakeSub(r, -want[r])
    BY <1>3, <2>1, <2>2
  <2> QED
    BY <1>2, <1>6, <2>2 DEF ReserveUndo, TakeWallet, Fault
<1>7. CASE RefundFunding(r)
  <2>1. -sess[r].subPre \in Int /\ -sess[r].subPre <= 0
    BY <1>1
  <2>2. CASE TakeSub(r, -sess[r].subPre)
    BY <1>3, <2>1, <2>2
  <2> QED
    BY <1>2, <1>7, <2>2 DEF RefundFunding, TakeWallet, Fault
<1>8. CASE RefundExtra(r)
  <2>1. -sess[r].extraReserved \in Int /\ -sess[r].extraReserved <= 0
    BY <1>1
  <2>2. CASE TakeSub(r, -sess[r].extraReserved)
    BY <1>3, <2>1, <2>2
  <2> QED
    BY <1>2, <1>8, <2>2 DEF RefundExtra, Fault
<1>9. CASE SettleFunding(r)
  <2> DEFINE delta == want[r] - sess[r].preConsumed
  <2>1. delta \in Int
    BY <1>1
  <2>2. CASE TakeSub(r, delta) /\ SubAccepts(delta)
    BY <1>3, <2>1, <2>2
  <2> QED
    BY <1>2, <1>9, <2>2 DEF SettleFunding, TakeWallet, Fault
<1>10. CASE \/ Start(r) \/ AdmitWallet(r) \/ AdmitSubscription(r) \/ PreToken(r)
            \/ PreUndo(r) \/ Attempt(r) \/ ReserveToken(r) \/ Upstream(r)
            \/ Fail(r) \/ RefundToken(r) \/ SettleToken(r)
  BY <1>2, <1>10
  DEF Start, AdmitWallet, AdmitSubscription, PreToken, PreUndo, Attempt,
      ReserveToken, Upstream, Fail, RefundToken, SettleToken, TakeToken, Fault
<1> QED
  BY <1>4, <1>5, <1>6, <1>7, <1>8, <1>9, <1>10 DEF Step

LEMMA InitIInv == Init => IInv
<1> SUFFICES ASSUME Init PROVE IInv
  OBVIOUS
<1>1. TypeOK
  BY InitTypeOK
<1>2. ASSUME NEW r \in Requests PROVE RequestOK(r)
  BY <1>2 DEF Init, RequestOK, NoDebt, Nothing, Running, NoSession, FreshSession
<1>3. WithinPlan
  BY ConstantsAssumption DEF Init, WithinPlan
<1> QED
  BY <1>1, <1>2, <1>3 DEF IInv

LEMMA StepIInv ==
    ASSUME IInv, NEW r \in Requests, Step(r) PROVE IInv'
<1>1. TypeOK'
  BY StepCounters, StepControl, StepSessions DEF IInv, TypeOK
<1>2. RequestOK(r)'
  BY StartOK, AdmitWalletOK, PreTokenOK, PreFundOK, PreUndoOK, AttemptOK,
     ReserveFundingOK, ReserveTokenOK, ReserveUndoOK, FailOK,
     RefundFundingOK, RefundExtraOK, RefundTokenOK, SettleFundingOK, SettleTokenOK
  DEF Step
<1>3. ASSUME NEW q \in Requests \ {r} PROVE RequestOK(q)'
  <2>1. Others(r) /\ RequestOK(q)
    BY <1>3, StepOthers DEF IInv
  <2> QED
    BY <1>3, <2>1, OthersOK
<1> QED
  BY <1>1, <1>2, <1>3, PlanOK DEF IInv

LEMMA AlwaysIInv == Spec => []IInv
<1>1. IInv /\ [Next]_vars => IInv'
  <2> SUFFICES ASSUME IInv, [Next]_vars PROVE IInv'
    OBVIOUS
  <2>1. ASSUME NEW r \in Requests, Step(r) PROVE IInv'
    BY <2>1, StepIInv
  <2>2. CASE Done \/ UNCHANGED vars
    BY <2>2
    DEF Done, vars, IInv, TypeOK, CountersOK, ControlOK, SessionsOK, WithinPlan,
        RequestOK, NoDebt, TokenHeld, FundHeld, Pending, Effective, Nothing
  <2> QED
    BY <2>1, <2>2 DEF Next
<1> QED
  BY <1>1, InitIInv, PTL DEF Spec

\* No request gets back more than it paid, from the wallet, the subscription or
\* the token, however many requests share them, whatever the billing preferences
\* and the prices, and whichever (atomic) storage operations fail: the rollbacks
\* of preConsume and Reserve, Settle and the Refund goroutine never pay the same
\* deduction back twice.
THEOREM NoOverRefund == Spec => []NeverOverRefunded
<1>1. IInv => NeverOverRefunded
  BY DEF IInv, RequestOK, NoDebt, NeverOverRefunded
<1> QED
  BY <1>1, AlwaysIInv, PTL

\* A limited subscription is never used beyond the total of its plan: every
\* concurrent pre-consumption, reservation and settlement is checked against it.
THEOREM PlanIsRespected == Spec => []WithinPlan
<1>1. IInv => WithinPlan
  BY DEF IInv
<1> QED
  BY <1>1, AlwaysIInv, PTL

-----------------------------------------------------------------------------
(* Sums over the requests.                                                 *)

\* The positive values of a function, as a set that has as many elements as they
\* sum up to: cardinalities add up without an induction.
Units(u) == {p \in (DOMAIN u) \X Nat : 1 <= p[2] /\ p[2] <= u[p[1]]}

Total(u) == Cardinality(Units(u))

Summable(u) == IsFiniteSet(Units(u))

Positive(n) == IF n > 0 THEN n ELSE 0

\* The units of one request.
LEMMA SlabSize ==
    ASSUME NEW r, NEW n \in Int
    PROVE  /\ IsFiniteSet({r} \X (1 .. n))
           /\ Cardinality({r} \X (1 .. n)) = Positive(n)
<1>1. IsFiniteSet({r}) /\ Cardinality({r}) = 1
  BY FS_Singleton
<1>2. IsFiniteSet(1 .. n) /\ Cardinality(1 .. n) = Positive(n)
  BY FS_Interval DEF Positive
<1>3. Cardinality({r} \X (1 .. n)) = Cardinality({r}) * Cardinality(1 .. n)
  BY <1>1, <1>2, FS_Product
<1>4. Positive(n) \in Int
  BY DEF Positive
<1> QED
  BY <1>1, <1>2, <1>3, <1>4, FS_Product

LEMMA SlabApart ==
    ASSUME NEW u, NEW r \in DOMAIN u, u[r] \in Int
    PROVE  LET rest == {p \in Units(u) : p[1] # r} IN
           /\ Units(u) = rest \cup ({r} \X (1 .. u[r]))
           /\ rest \cap ({r} \X (1 .. u[r])) = {}
  BY DEF Units

LEMMA DisjointUnion ==
    ASSUME NEW S, NEW T, IsFiniteSet(S), IsFiniteSet(T), S \cap T = {}
    PROVE  /\ IsFiniteSet(S \cup T)
           /\ Cardinality(S \cup T) = Cardinality(S) + Cardinality(T)
<1>1. /\ IsFiniteSet(S \cup T)
      /\ Cardinality(S \cup T) = Cardinality(S) + Cardinality(T) - Cardinality(S \cap T)
  BY FS_Union
<1>2. Cardinality(S) \in Nat /\ Cardinality(T) \in Nat /\ Cardinality(S \cap T) = 0
  BY FS_CardinalityType, FS_EmptySet
<1> QED
  BY <1>1, <1>2

LEMMA OneChanges ==
    ASSUME NEW S, NEW u \in [S -> Int], NEW v \in [S -> Int], NEW r \in S,
           \A q \in S \ {r} : v[q] = u[q], Summable(u)
    PROVE  /\ Summable(v)
           /\ Total(u) \in Nat /\ Total(v) \in Nat
           /\ Total(v) = Total(u) + Positive(v[r]) - Positive(u[r])
<1> DEFINE rest == {p \in Units(u) : p[1] # r}
           a == {r} \X (1 .. u[r])
           b == {r} \X (1 .. v[r])
<1>1. Units(u) = rest \cup a /\ rest \cap a = {}
  BY SlabApart
<1>2. rest = {p \in Units(v) : p[1] # r}
  BY DEF Units
<1>3. Units(v) = rest \cup b /\ rest \cap b = {}
  BY <1>2, SlabApart
<1>4. /\ IsFiniteSet(a) /\ Cardinality(a) = Positive(u[r])
      /\ IsFiniteSet(b) /\ Cardinality(b) = Positive(v[r])
  BY SlabSize
<1>5. IsFiniteSet(rest) /\ Cardinality(rest) \in Nat
  BY FS_Subset, FS_CardinalityType DEF Summable
<1>6. Positive(u[r]) \in Nat /\ Positive(v[r]) \in Nat
  BY DEF Positive
<1> HIDE DEF rest, a, b
<1>7. Total(u) = Cardinality(rest) + Positive(u[r])
  BY <1>1, <1>4, <1>5, DisjointUnion DEF Total
<1>8. Total(v) = Cardinality(rest) + Positive(v[r]) /\ Summable(v)
  BY <1>3, <1>4, <1>5, DisjointUnion DEF Total, Summable
<1> QED
  BY <1>5, <1>6, <1>7, <1>8

LEMMA PartOfTotal ==
    ASSUME NEW S, NEW u \in [S -> Int], NEW r \in S, Summable(u)
    PROVE  u[r] <= Total(u) /\ Total(u) \in Nat
<1> DEFINE slab == {r} \X (1 .. u[r])
<1>1. /\ slab \in SUBSET Units(u)
      /\ Cardinality(slab) = Positive(u[r])
  <2>1. slab \subseteq Units(u)
    BY DEF Units
  <2>2. Cardinality(slab) = Positive(u[r])
    BY SlabSize
  <2> QED
    BY <2>1, <2>2
<1> HIDE DEF slab
<1>2. Total(u) \in Nat
  BY FS_CardinalityType DEF Total, Summable
<1>3. Positive(u[r]) <= Total(u)
  <2>1. Cardinality(slab) <= Cardinality(Units(u))
    BY <1>1, FS_Subset DEF Summable
  <2> QED
    BY <1>1, <2>1 DEF Total
<1> QED
  BY <1>2, <1>3 DEF Positive

LEMMA TotalIsOfSome ==
    ASSUME NEW S, NEW u \in [S -> Int], Summable(u), Total(u) > 0
    PROVE  \E r \in S : u[r] > 0
<1>1. Units(u) # {}
  BY FS_EmptySet DEF Total
<1> QED
  BY <1>1 DEF Units

LEMMA NothingToSum ==
    ASSUME NEW S, NEW u \in [S -> Int], \A r \in S : u[r] <= 0
    PROVE  Summable(u) /\ Total(u) = 0
<1>1. Units(u) = {}
  BY DEF Units
<1> QED
  BY <1>1, FS_EmptySet DEF Total, Summable

-----------------------------------------------------------------------------
(* The subscription counts what the requests hold, no more and no less.    *)

\* A step makes at most one storage operation.
Stores(r) ==
    \/ \E n \in Int : TakeWallet(r, n)
    \/ \E n \in Int : TakeToken(r, n)
    \/ \E n \in Int : TakeSub(r, n)
    \/ Fault
    \/ UNCHANGED <<wallet, token, sub, took>>

LEMMA StepStores == ASSUME TypeOK, NEW r \in Requests, Step(r) PROVE Stores(r)
<1>1. /\ want[r] \in Int /\ -want[r] \in Int /\ Effective(r) \in Int
      /\ -WalletRefund(r) \in Int /\ -sess[r].subPre \in Int
      /\ -sess[r].extraReserved \in Int /\ -sess[r].tokenConsumed \in Int
      /\ want[r] - sess[r].preConsumed \in Int
  BY AmountsAreNumbers
<1>2. CASE PreToken(r) \/ PreFund(r) \/ PreUndo(r)
  BY <1>1, <1>2 DEF PreToken, PreFund, PreUndo, Stores
<1>3. CASE ReserveFunding(r) \/ ReserveToken(r) \/ ReserveUndo(r)
  BY <1>1, <1>3 DEF ReserveFunding, ReserveToken, ReserveUndo, Stores
<1>4. CASE RefundFunding(r) \/ RefundExtra(r) \/ RefundToken(r)
  BY <1>1, <1>4 DEF RefundFunding, RefundExtra, RefundToken, Stores
<1>5. CASE SettleFunding(r) \/ SettleToken(r)
  BY <1>1, <1>5 DEF SettleFunding, SettleToken, Stores
<1>6. CASE \/ Start(r) \/ AdmitWallet(r) \/ AdmitSubscription(r) \/ Attempt(r)
           \/ Upstream(r) \/ Fail(r)
  BY <1>6 DEF Start, AdmitWallet, AdmitSubscription, Attempt, Upstream, Fail, Stores
<1> QED
  BY <1>2, <1>3, <1>4, <1>5, <1>6 DEF Step

SubTaken == [r \in Requests |-> took[r].sub]

SubOwed == Summable(SubTaken) /\ Total(SubTaken) = sub

LEMMA SubMoves ==
    ASSUME TypeOK, NEW r \in Requests, Step(r)
    PROVE  took'[r].sub = took[r].sub + (sub' - sub)
<1>1. took[r].sub \in Int /\ sub \in Int
  BY DEF TypeOK, CountersOK
<1>2. ASSUME NEW n \in Int, TakeWallet(r, n) PROVE took'[r].sub = took[r].sub /\ sub' = sub
  BY <1>2, TakeWalletTook DEF TookAfter, TakeWallet
<1>3. ASSUME NEW n \in Int, TakeToken(r, n) PROVE took'[r].sub = took[r].sub /\ sub' = sub
  BY <1>3, TakeTokenTook DEF TookAfter, TakeToken
<1>4. ASSUME NEW n \in Int, TakeSub(r, n)
      PROVE  took'[r].sub = took[r].sub + (sub' - sub)
  <2>1. took[r] \in [wallet : Int, token : Int, sub : Int]
    BY DEF TypeOK, CountersOK
  <2>2. took'[r] = [took[r] EXCEPT !.sub = took[r].sub + sub' - sub]
    BY <1>4 DEF TypeOK, CountersOK, TakeSub
  <2>3. took'[r].sub = took[r].sub + sub' - sub /\ sub' \in Int
    BY <1>1, <1>4, <2>1, <2>2 DEF TakeSub
  <2> QED
    BY <1>1, <2>3
<1>5. CASE took' = took /\ sub' = sub
  BY <1>1, <1>5
<1> QED
  BY <1>1, <1>2, <1>3, <1>4, <1>5, StepStores DEF Stores, Fault

LEMMA SubOwedStep ==
    ASSUME IInv, IInv', SubOwed, NEW r \in Requests, Step(r) PROVE SubOwed'
<1>1. SubTaken \in [Requests -> Int] /\ SubTaken' \in [Requests -> Int] /\ sub \in Nat
  BY DEF IInv, TypeOK, CountersOK, SubTaken
<1>2. \A q \in Requests \ {r} : SubTaken'[q] = SubTaken[q]
  BY StepOthers DEF IInv, Others, SubTaken
<1>3. /\ SubTaken[r] = took[r].sub /\ SubTaken'[r] = took'[r].sub
      /\ took[r].sub \in Nat /\ took'[r].sub \in Nat
  BY <1>1 DEF SubTaken, IInv, RequestOK, NoDebt
<1>4. took'[r].sub = took[r].sub + (sub' - sub) /\ sub' \in Nat
  BY SubMoves DEF IInv, TypeOK, CountersOK
<1>5. /\ Summable(SubTaken')
      /\ Total(SubTaken') = Total(SubTaken) + Positive(SubTaken'[r]) - Positive(SubTaken[r])
  BY <1>1, <1>2, OneChanges DEF SubOwed
<1>6. Total(SubTaken') = sub'
  BY <1>1, <1>3, <1>4, <1>5 DEF Positive, SubOwed
<1> QED
  BY <1>5, <1>6 DEF SubOwed

LEMMA SubOwedBounds ==
    ASSUME IInv, SubOwed, NEW r \in Requests PROVE took[r].sub <= sub
<1>1. SubTaken \in [Requests -> Int] /\ SubTaken[r] = took[r].sub
  BY DEF IInv, TypeOK, CountersOK, SubTaken
<1> QED
  BY <1>1, PartOfTotal DEF SubOwed

\* What a request gives back is never cut off at zero.
LEMMA NoClamp ==
    ASSUME IInv, SubOwed, NEW r \in Requests, NEW n \in Int, TakeSub(r, n),
           took[r].sub + n >= 0
    PROVE  TookAfter(r, took[r].wallet, took[r].sub + n, took[r].token)
<1>1. took[r].sub \in Int /\ sub \in Int /\ took[r].sub <= sub /\ TypeOK
  BY SubOwedBounds DEF IInv, TypeOK, CountersOK
<1>2. sub' = sub + n
  BY <1>1 DEF TakeSub
<1>3. took[r] \in [wallet : Int, token : Int, sub : Int]
  BY <1>1 DEF TypeOK, CountersOK
<1>4. took'[r] = [took[r] EXCEPT !.sub = took[r].sub + sub' - sub]
  BY <1>1 DEF TypeOK, CountersOK, TakeSub
<1>5. took'[r].sub = took[r].sub + sub' - sub
  BY <1>3, <1>4
<1>6. took'[r].sub = took[r].sub + n
  BY <1>1, <1>2, <1>5
<1> QED
  BY <1>1, <1>6, TakeSubTook DEF TookAfter

-----------------------------------------------------------------------------
(* What a request has cost, to the unit, at every statement.               *)

TokenPart(r, n) == IF profile[r].playground THEN 0 ELSE n

\* Request r has taken n from its source and k from the token.
Paid(r, n, k) ==
    /\ took[r].wallet = IF sess[r].funding = "wallet" THEN n ELSE 0
    /\ took[r].sub = IF sess[r].funding = "subscription" THEN n ELSE 0
    /\ took[r].token = TokenPart(r, k)

Opening == {"start", "admit", "preToken", "preFund", "preUndo"}

\* Image requests on the wallet lose track of what they reserved.
Forgetful(r) == profile[r].image /\ sess[r].funding = "wallet"

Price(r) == IF sess[r].settled THEN want[r] ELSE 0

Exact(r) ==
    /\ pc[r] \in Opening =>
          /\ took[r].wallet = 0 /\ took[r].sub = 0
          /\ took[r].token = TokenPart(r, sess[r].tokenConsumed)
    /\ pc[r] \in Running /\ ~Forgetful(r) =>
          /\ Paid(r, sess[r].preConsumed + Pending(r), sess[r].preConsumed)
          /\ sess[r].funding = "wallet" =>
                sess[r].consumed = sess[r].preConsumed + Pending(r)
    /\ pc[r] = "refFund" /\ ~Forgetful(r) =>
          /\ Paid(r, sess[r].preConsumed, sess[r].tokenConsumed)
          /\ sess[r].funding = "wallet" => sess[r].consumed = sess[r].preConsumed
          /\ sess[r].funding # "wallet" =>
                sess[r].preConsumed = sess[r].subPre + sess[r].extraReserved
          /\ sess[r].funding # "none"
    /\ pc[r] = "refExtra" =>
          Paid(r, sess[r].extraReserved, sess[r].tokenConsumed)
    /\ pc[r] = "refToken" /\ ~Forgetful(r) => Paid(r, 0, sess[r].tokenConsumed)
    /\ pc[r] = "setToken" /\ ~Forgetful(r) => Paid(r, want[r], sess[r].preConsumed)
    /\ pc[r] = "closed" /\ ~Forgetful(r) => Paid(r, Price(r), Price(r))

\* No session is settled or refunded before its request comes to that.
Flags(r) ==
    /\ pc[r] # "closed" => ~sess[r].settled
    /\ pc[r] \in Opening \cup Running => ~sess[r].refunded /\ ~sess[r].fundingSettled
    /\ pc[r] = "refExtra" => sess[r].funding = "subscription"

EInv ==
    /\ SubOwed
    /\ \A r \in Requests : Flags(r) /\ (r \in logged \/ Exact(r))

SameFlags(r) ==
    /\ sess'[r].settled = sess[r].settled
    /\ sess'[r].refunded = sess[r].refunded
    /\ sess'[r].fundingSettled = sess[r].fundingSettled

NoFlags(r) == ~sess'[r].settled /\ ~sess'[r].refunded /\ ~sess'[r].fundingSettled

\* The numbers of request r, with what its invariants say.
LEMMA ExactAmounts ==
    ASSUME IInv, EInv, NEW r \in Requests
    PROVE  /\ TypeOK /\ SessionsOK /\ SubOwed /\ RequestOK(r) /\ Flags(r)
           /\ took[r].wallet \in Int /\ took[r].sub \in Int /\ took[r].token \in Int
           /\ want[r] \in Nat /\ Effective(r) \in Nat /\ Pending(r) \in Nat
           /\ sess[r].tokenConsumed \in Nat /\ sess[r].extraReserved \in Nat
           /\ sess[r].preConsumed \in Nat /\ sess[r].subPre \in Nat
           /\ sess[r].consumed \in Int /\ sess[r] \in SessionType
           /\ pc \in [Requests -> Labels] /\ sess[r].funding \in Sources
<1>1. Pending(r) \in Nat /\ sess[r].funding \in Sources
  BY Amounts DEF Pending, SessionType
<1> QED
  BY <1>1, Amounts DEF EInv

LEMMA FreshFlags ==
    ASSUME SessionsOK, NEW r \in Requests, NEW source, NEW b,
           sess' = [sess EXCEPT ![r] = FreshSession(source, b)]
    PROVE  NoFlags(r)
  BY DEF SessionsOK, FreshSession, NoFlags

\* A session is a function on the names of its fields.
LEMMA SessionFields ==
    ASSUME NEW s \in SessionType
    PROVE  DOMAIN s = {"funding", "preConsumed", "tokenConsumed", "extraReserved",
                       "trusted", "fundingSettled", "settled", "refunded", "consumed",
                       "subPre", "tokenTrusted"}
  BY DEF SessionType

Flagged == {"funding", "settled", "refunded", "fundingSettled"}

LEMMA KeptFlags ==
    ASSUME NEW r, \A f \in Flagged : sess'[r][f] = sess[r][f]
    PROVE  SameFlags(r) /\ sess'[r].funding = sess[r].funding
  BY DEF SameFlags, Flagged

\* A request that has taken nothing is refused, or tries (another) source.
LEMMA NothingPaid ==
    ASSUME NEW r \in Requests, NEW source, NoFlags(r), Session(r, source, 0, 0, 0, 0, 0),
           took'[r].wallet = 0, took'[r].sub = 0, took'[r].token = 0,
           pc'[r] \in {"start", "admit", "preToken", "closed"}
    PROVE  Exact(r)' /\ Flags(r)'
<1>1. Flags(r)'
  BY DEF Flags, NoFlags
<1>2. Exact(r)'
  BY DEF Exact, NoFlags, Session, Opening, Running, TokenPart, Price, Paid
<1> QED
  BY <1>1, <1>2

LEMMA OpeningPaid ==
    ASSUME IInv, EInv, NEW r \in Requests, r \notin logged,
           pc[r] \in {"start", "admit", "preToken"}
    PROVE  took[r].wallet = 0 /\ took[r].sub = 0 /\ took[r].token = 0
  BY DEF EInv, Exact, Opening, IInv, RequestOK, TokenPart

LEMMA StartExact ==
    ASSUME IInv, EInv, NEW r \in Requests, Start(r) \/ AdmitSubscription(r)
    PROVE  Flags(r)' /\ (r \in logged' \/ Exact(r)')
<1>1. TypeOK /\ SessionsOK /\ Flags(r) /\ RequestOK(r) /\ pc \in [Requests -> Labels]
  BY ExactAmounts
<1>2. /\ took' = took /\ profile' = profile /\ logged' = logged
      /\ pc[r] \in {"start", "admit"}
  BY DEF Start, AdmitSubscription
<1>3. /\ Nothing(sess[r]) /\ sess[r].tokenConsumed = 0
      /\ pc[r] = "start" => sess[r].funding = "none"
      /\ ~sess[r].settled /\ ~sess[r].refunded /\ ~sess[r].fundingSettled
  BY <1>1, <1>2 DEF RequestOK, Flags, Opening
<1>4. \/ pc'[r] \in {"closed", "attempt"} /\ pc[r] = "start" /\ sess' = sess
      \/ pc[r] = "admit" /\ pc'[r] = "preToken" /\ sess' = sess
      \/ pc'[r] = "admit" /\ sess' = [sess EXCEPT ![r] =
             FreshSession(FirstSource(r), TokenUnlimited \/ token > TrustQuota)]
  BY <1>1 DEF Start, AdmitSubscription, OpenSession, Go
<1>5. r \notin logged => took[r].wallet = 0 /\ took[r].sub = 0 /\ took[r].token = 0
  BY <1>2, OpeningPaid
<1>6. CASE sess' = sess
  <2>1. Session(r, sess[r].funding, 0, 0, 0, 0, 0) /\ NoFlags(r)
    BY <1>3, <1>6 DEF Session, NoFlags, Nothing
  <2>2. CASE pc'[r] = "attempt"
    <3>1. Flags(r)'
      BY <2>1, <2>2 DEF Flags, NoFlags
    <3>2. Pending(r)' = 0
      BY <2>2 DEF Pending
    <3>3. r \notin logged => Exact(r)'
      BY <1>2, <1>5, <2>1, <2>2, <3>2
      DEF Exact, Paid, Opening, TokenPart, Session
    <3> QED
      BY <1>2, <3>1, <3>3
  <2>3. CASE pc'[r] # "attempt"
    <3>1. pc'[r] \in {"preToken", "closed", "admit"}
      BY <1>4, <2>3
    <3>2. Flags(r)'
      BY <2>1, <3>1 DEF Flags, NoFlags
    <3> QED
      BY <1>2, <1>5, <2>1, <3>1, <3>2, NothingPaid
  <2> QED
    BY <2>2, <2>3
<1>7. CASE pc'[r] = "admit" /\ sess' = [sess EXCEPT ![r] =
             FreshSession(FirstSource(r), TokenUnlimited \/ token > TrustQuota)]
  <2>1. Session(r, FirstSource(r), 0, 0, 0, 0, 0) /\ NoFlags(r)
    BY <1>1, <1>7, FreshAfter, FreshFlags
  <2>2. Flags(r)'
    BY <1>7, <2>1 DEF Flags, NoFlags
  <2> QED
    BY <1>2, <1>5, <1>7, <2>1, <2>2, NothingPaid
<1> QED
  BY <1>4, <1>6, <1>7

LEMMA AdmitWalletExact ==
    ASSUME IInv, EInv, NEW r \in Requests, AdmitWallet(r)
    PROVE  Flags(r)' /\ (r \in logged' \/ Exact(r)')
<1>1. TypeOK /\ SessionsOK /\ Flags(r) /\ RequestOK(r) /\ pc \in [Requests -> Labels]
  BY ExactAmounts
<1>2. /\ took' = took /\ profile' = profile /\ logged' = logged /\ pc[r] = "admit"
      /\ want' = want
  BY DEF AdmitWallet, Fault
<1>3. /\ Nothing(sess[r]) /\ sess[r].tokenConsumed = 0
      /\ ~sess[r].settled /\ ~sess[r].refunded /\ ~sess[r].fundingSettled
  BY <1>1, <1>2 DEF RequestOK, Flags, Opening
<1>4. r \notin logged => took[r].wallet = 0 /\ took[r].sub = 0 /\ took[r].token = 0
  BY <1>2, OpeningPaid
<1>5. \/ /\ pc'[r] \in {"admit", "closed"}
         /\ \E source, b : sess' = [sess EXCEPT ![r] = FreshSession(source, b)]
      \/ /\ sess' = [sess EXCEPT ![r].trusted = ShouldTrust(r)]
         /\ pc'[r] \in {"preFund", "preToken"}
  BY <1>1 DEF AdmitWallet, Insufficient, Drop, Go, NoSession
<1>6. CASE /\ pc'[r] \in {"admit", "closed"}
           /\ \E source, b : sess' = [sess EXCEPT ![r] = FreshSession(source, b)]
  <2>1. PICK source, b : sess' = [sess EXCEPT ![r] = FreshSession(source, b)]
    BY <1>6
  <2>2. Session(r, source, 0, 0, 0, 0, 0) /\ NoFlags(r)
    BY <1>1, <2>1, FreshAfter, FreshFlags
  <2>3. Flags(r)'
    BY <1>6, <2>2 DEF Flags, NoFlags
  <2> QED
    BY <1>2, <1>4, <1>6, <2>2, <2>3, NothingPaid
<1>7. CASE /\ sess' = [sess EXCEPT ![r].trusted = ShouldTrust(r)]
           /\ pc'[r] \in {"preFund", "preToken"}
  <2>1. SameSession(r) /\ SameFlags(r)
    <3>1. sess'[r] = [sess[r] EXCEPT !.trusted = ShouldTrust(r)] /\ sess[r] \in SessionType
      BY <1>1, <1>7 DEF SessionsOK
    <3>2. \A f \in Flagged : sess'[r][f] = sess[r][f]
      BY <3>1, SessionFields DEF Flagged
    <3> QED
      BY <1>1, <1>7, <3>2, OtherFieldAfter, KeptFlags
  <2>2. Flags(r)'
    BY <1>3, <1>7, <2>1 DEF Flags, SameFlags
  <2>3. r \notin logged => Exact(r)'
    BY <1>2, <1>3, <1>4, <1>7, <2>1
    DEF Exact, Opening, Running, TokenPart, SameSession, Session
  <2> QED
    BY <1>2, <2>2, <2>3
<1> QED
  BY <1>5, <1>6, <1>7

LEMMA PreTokenExact ==
    ASSUME IInv, EInv, NEW r \in Requests, PreToken(r)
    PROVE  Flags(r)' /\ (r \in logged' \/ Exact(r)')
<1> DEFINE n == Effective(r)
<1>1. /\ TypeOK /\ SessionsOK /\ Flags(r) /\ RequestOK(r) /\ pc \in [Requests -> Labels]
      /\ n \in Nat /\ sess[r] \in SessionType
  BY ExactAmounts
<1>2. profile' = profile /\ logged' = logged /\ pc[r] = "preToken"
  BY DEF PreToken
<1>3. ~sess[r].settled /\ ~sess[r].refunded /\ ~sess[r].fundingSettled
  BY <1>1, <1>2 DEF Flags, Opening
<1>4. r \notin logged => took[r].wallet = 0 /\ took[r].sub = 0 /\ took[r].token = 0
  BY <1>2, OpeningPaid
<1>5. CASE /\ pc' = [pc EXCEPT ![r] = "closed"] /\ took' = took
           /\ sess' = [sess EXCEPT ![r] = FreshSession("none", FALSE)]
  <2>1. Session(r, "none", 0, 0, 0, 0, 0) /\ NoFlags(r) /\ pc'[r] = "closed"
    BY <1>1, <1>5, FreshAfter, FreshFlags
  <2>2. Flags(r)'
    BY <2>1 DEF Flags, Opening, Running
  <2> QED
    BY <1>2, <1>4, <1>5, <2>1, <2>2, NothingPaid
<1>6. CASE /\ TakeToken(r, n)
           /\ sess' = [sess EXCEPT ![r].tokenConsumed = n]
           /\ pc' = [pc EXCEPT ![r] = "preFund"]
  <2>1. TookAfter(r, took[r].wallet, took[r].sub,
                  IF profile[r].playground THEN took[r].token ELSE took[r].token + n)
    BY <1>1, <1>6, TakeTokenTook
  <2>2. sess'[r] = [sess[r] EXCEPT !.tokenConsumed = n] /\ pc'[r] = "preFund"
    BY <1>1, <1>6 DEF SessionsOK
  <2>3. sess'[r].tokenConsumed = n /\ SameFlags(r)
    BY <1>1, <2>2 DEF SessionType, SameFlags
  <2>4. Flags(r)'
    BY <1>3, <2>2, <2>3 DEF Flags, SameFlags
  <2> HIDE DEF n
  <2>5. r \notin logged => Exact(r)'
    BY <1>1, <1>2, <1>4, <2>1, <2>2, <2>3
    DEF Exact, Opening, Running, TokenPart, TookAfter
  <2> QED
    BY <1>2, <2>4, <2>5
<1> QED
  BY <1>5, <1>6 DEF PreToken, Drop, Go, Fault, NoSession

LEMMA PreFundExact ==
    ASSUME IInv, EInv, NEW r \in Requests, PreFund(r)
    PROVE  Flags(r)' /\ (r \in logged' \/ Exact(r)')
<1> DEFINE n == Effective(r)
<1>1. pc[r] = "preFund" /\ profile' = profile /\ logged' = logged
  BY DEF PreFund
<1>2. /\ TypeOK /\ SessionsOK /\ SubOwed /\ n \in Nat /\ n \in Int /\ sess[r] \in SessionType
      /\ Nothing(sess[r]) /\ sess[r].tokenConsumed = n
      /\ took[r].wallet \in Int /\ took[r].sub \in Int /\ took[r].sub >= 0
      /\ pc \in [Requests -> Labels] /\ sess[r].funding \in {"wallet", "subscription"}
      /\ ~sess[r].settled /\ ~sess[r].refunded /\ ~sess[r].fundingSettled
  BY <1>1, ExactAmounts DEF RequestOK, NoDebt, Flags, Opening, Sources
<1>3. r \notin logged =>
         /\ took[r].wallet = 0 /\ took[r].sub = 0 /\ took[r].token = TokenPart(r, n)
  BY <1>1, <1>2 DEF EInv, Exact, Opening
<1>4. CASE /\ pc' = [pc EXCEPT ![r] = "preUndo"] /\ took' = took
           /\ (sess' = sess \/ sess' = [sess EXCEPT ![r].funding = "none"])
  <2>1. \/ sess'[r] = sess[r]
        \/ sess'[r] = [sess[r] EXCEPT !.funding = "none"]
    BY <1>2, <1>4 DEF SessionsOK
  <2>2. SameFlags(r) /\ sess'[r].tokenConsumed = n /\ pc'[r] = "preUndo"
    BY <1>2, <1>4, <2>1 DEF SessionType, SameFlags
  <2>3. Flags(r)'
    BY <1>2, <2>2 DEF Flags, SameFlags
  <2>4. r \notin logged => Exact(r)'
    BY <1>1, <1>3, <1>4, <2>2 DEF Exact, Opening, Running, TokenPart
  <2> QED
    BY <1>1, <2>3, <2>4
<1>5. CASE /\ sess[r].funding = "wallet"
           /\ TakeWallet(r, n)
           /\ sess' = [sess EXCEPT ![r].consumed = n, ![r].preConsumed = n]
           /\ pc' = [pc EXCEPT ![r] = "attempt"]
  <2>1. TookAfter(r, took[r].wallet + n, took[r].sub, took[r].token)
    BY <1>2, <1>5, TakeWalletTook
  <2>2. sess'[r] = [sess[r] EXCEPT !.consumed = n, !.preConsumed = n] /\ pc'[r] = "attempt"
    BY <1>2, <1>5 DEF SessionsOK
  <2> HIDE DEF n
  <2>3. sess'[r].funding = "wallet" /\ SameFlags(r)
    <3>1. \A f \in Flagged : sess'[r][f] = sess[r][f]
      BY <1>2, <2>2, SessionFields DEF Flagged
    <3> QED
      BY <1>5, <3>1, KeptFlags
  <2>4. sess'[r].preConsumed = n
    BY <1>2, <2>2 DEF SessionType
  <2>5. sess'[r].consumed = n
    BY <1>2, <2>2 DEF SessionType
  <2>6. Flags(r)'
    BY <1>2, <2>2, <2>3 DEF Flags, SameFlags
  <2>7. Pending(r)' = 0
    BY <2>2 DEF Pending
  <2>8. r \notin logged => Exact(r)'
    BY <1>1, <1>2, <1>3, <2>1, <2>2, <2>3, <2>4, <2>5, <2>7
    DEF Exact, Opening, Paid, TookAfter, TokenPart
  <2> QED
    BY <1>1, <2>6, <2>8
<1>6. CASE /\ sess[r].funding = "subscription"
           /\ TakeSub(r, n)
           /\ sess' = [sess EXCEPT ![r].subPre = n, ![r].preConsumed = n]
           /\ pc' = [pc EXCEPT ![r] = "attempt"]
  <2>1. TookAfter(r, took[r].wallet, took[r].sub + n, took[r].token)
    BY <1>2, <1>6, NoClamp
  <2>2. sess'[r] = [sess[r] EXCEPT !.subPre = n, !.preConsumed = n] /\ pc'[r] = "attempt"
    BY <1>2, <1>6 DEF SessionsOK
  <2> HIDE DEF n
  <2>3. sess'[r].funding = "subscription" /\ SameFlags(r)
    <3>1. \A f \in Flagged : sess'[r][f] = sess[r][f]
      BY <1>2, <2>2, SessionFields DEF Flagged
    <3> QED
      BY <1>6, <3>1, KeptFlags
  <2>4. sess'[r].preConsumed = n
    BY <1>2, <2>2 DEF SessionType
  <2>6. Flags(r)'
    BY <1>2, <2>2, <2>3 DEF Flags, SameFlags
  <2>7. Pending(r)' = 0
    BY <2>2 DEF Pending
  <2>8. r \notin logged => Exact(r)'
    BY <1>1, <1>2, <1>3, <2>1, <2>2, <2>3, <2>4, <2>7
    DEF Exact, Opening, Paid, TookAfter, TokenPart
  <2> QED
    BY <1>1, <2>6, <2>8
<1> QED
  BY <1>2, <1>4, <1>5, <1>6 DEF PreFund, Go, Fault

LEMMA PreUndoExact ==
    ASSUME IInv, EInv, NEW r \in Requests, PreUndo(r)
    PROVE  Flags(r)' /\ (r \in logged' \/ Exact(r)')
<1> DEFINE next == Fallback(r, sess[r].funding)
           n == sess[r].tokenConsumed
<1>1. pc[r] = "preUndo" /\ profile' = profile
  BY DEF PreUndo
<1>2. /\ TypeOK /\ SessionsOK /\ n \in Nat /\ took[r].token \in Int
      /\ pc \in [Requests -> Labels]
  BY <1>1, ExactAmounts
<1>3. r \notin logged =>
         /\ took[r].wallet = 0 /\ took[r].sub = 0 /\ took[r].token = TokenPart(r, n)
  BY <1>1, <1>2 DEF EInv, Exact, Opening
<1>4. /\ pc'[r] \in {"admit", "closed"}
      /\ sess' = [sess EXCEPT ![r] = FreshSession(next, sess[r].tokenTrusted)]
  BY <1>2 DEF PreUndo, Insufficient, Go
<1>5. Session(r, next, 0, 0, 0, 0, 0) /\ NoFlags(r)
  BY <1>2, <1>4, FreshAfter, FreshFlags
<1>6. Flags(r)'
  BY <1>4, <1>5 DEF Flags, NoFlags
<1>7. CASE r \in logged'
  BY <1>6, <1>7
<1>8. CASE r \notin logged'
  <2>1. TakeToken(r, -n) /\ r \notin logged
    BY <1>8 DEF PreUndo
  <2>2. -n \in Int
    BY <1>2
  <2>3. TookAfter(r, took[r].wallet, took[r].sub,
                  IF profile[r].playground THEN took[r].token ELSE took[r].token + (-n))
    BY <1>2, <2>1, <2>2, TakeTokenTook
  <2>4. took'[r].wallet = 0 /\ took'[r].sub = 0 /\ took'[r].token = 0
    BY <1>2, <1>3, <2>1, <2>3 DEF TookAfter, TokenPart
  <2> QED
    BY <1>4, <1>5, <2>4, NothingPaid
<1> QED
  BY <1>7, <1>8

\* The request goes on with the same session, outside a reservation.
LEMMA MoveExact ==
    ASSUME IInv, EInv, NEW r \in Requests, took' = took, profile' = profile,
           sess' = sess, pc[r] \in Running, Pending(r) = 0,
           pc'[r] \in {"attempt", "resFund", "upstream", "fail", "setFund"}
    PROVE  Flags(r)' /\ (r \in logged \/ Exact(r)')
<1>1. Pending(r)' = 0
  BY DEF Pending
<1>2. Flags(r)'
  BY ExactAmounts DEF Flags, Running
<1>3. r \notin logged => Exact(r)'
  BY <1>1 DEF EInv, Exact, Running, Opening, Paid, TokenPart, Forgetful
<1> QED
  BY <1>2, <1>3

LEMMA AttemptExact ==
    ASSUME IInv, EInv, NEW r \in Requests, Attempt(r) \/ Upstream(r)
    PROVE  Flags(r)' /\ (r \in logged' \/ Exact(r)')
<1>1. /\ pc[r] \in {"attempt", "upstream"} /\ profile' = profile /\ took' = took
      /\ logged' = logged
  BY DEF Attempt, Upstream
<1>2. /\ TypeOK /\ SessionsOK /\ FundHeld(r) /\ Flags(r)
      /\ pc \in [Requests -> Labels] /\ pc[r] \in Running /\ Pending(r) = 0
      /\ sess[r].preConsumed \in Nat
      /\ ~sess[r].settled /\ ~sess[r].refunded /\ ~sess[r].fundingSettled
  BY <1>1, ExactAmounts DEF RequestOK, Running, Flags, Pending
<1>3. r \notin logged /\ sess[r].funding = "none" =>
         took[r].wallet = 0 /\ took[r].sub = 0 /\ took[r].token = 0
  BY <1>2 DEF EInv, Exact, Forgetful, Paid, FundHeld, TokenPart
<1>4. \/ sess' = sess /\ pc'[r] \in {"attempt", "resFund", "upstream", "fail", "setFund"}
      \/ sess' = sess /\ pc'[r] = "closed" /\ sess[r].funding = "none"
      \/ /\ sess' = [sess EXCEPT ![r] =
              FreshSession(FirstSource(r), TokenUnlimited \/ token > TrustQuota)]
         /\ pc'[r] = "admit" /\ sess[r].funding = "none"
  BY <1>2 DEF Attempt, Upstream, OpenSession, Go
<1>5. CASE sess' = sess /\ pc'[r] \in {"attempt", "resFund", "upstream", "fail", "setFund"}
  BY <1>1, <1>2, <1>5, MoveExact
<1>6. CASE sess' = sess /\ pc'[r] = "closed" /\ sess[r].funding = "none"
  <2>1. Flags(r)'
    BY <1>6 DEF Flags, Opening, Running
  <2>2. r \notin logged => Exact(r)'
    BY <1>1, <1>2, <1>3, <1>6 DEF Exact, Paid, Price, TokenPart, Opening, Running
  <2> QED
    BY <1>1, <2>1, <2>2
<1>7. CASE /\ sess' = [sess EXCEPT ![r] =
                FreshSession(FirstSource(r), TokenUnlimited \/ token > TrustQuota)]
           /\ pc'[r] = "admit" /\ sess[r].funding = "none"
  <2>1. Session(r, FirstSource(r), 0, 0, 0, 0, 0) /\ NoFlags(r)
    BY <1>2, <1>7, FreshAfter, FreshFlags
  <2>2. Flags(r)'
    BY <1>7, <2>1 DEF Flags, NoFlags
  <2> QED
    BY <1>1, <1>3, <1>7, <2>1, <2>2, NothingPaid
<1> QED
  BY <1>4, <1>5, <1>6, <1>7

LEMMA ReserveFundingExact ==
    ASSUME IInv, EInv, NEW r \in Requests, ReserveFunding(r)
    PROVE  Flags(r)' /\ (r \in logged' \/ Exact(r)')
<1> DEFINE n == want[r]
<1>1. pc[r] = "resFund" /\ profile' = profile /\ want' = want /\ logged' = logged
  BY DEF ReserveFunding
<1>2. /\ TypeOK /\ SessionsOK /\ SubOwed /\ Flags(r) /\ n \in Nat /\ n \in Int
      /\ sess[r] \in SessionType /\ NoDebt(r)
      /\ took[r].wallet \in Int /\ took[r].sub \in Int
      /\ sess[r].consumed \in Int /\ sess[r].preConsumed \in Nat
      /\ pc \in [Requests -> Labels] /\ pc[r] \in Running
      /\ ~sess[r].settled /\ ~sess[r].refunded /\ ~sess[r].fundingSettled
  BY <1>1, ExactAmounts DEF RequestOK, Running, Flags
<1>3. Pending(r) = 0
  BY <1>1 DEF Pending
<1>4. r \notin logged /\ ~Forgetful(r) =>
         /\ Paid(r, sess[r].preConsumed, sess[r].preConsumed)
         /\ sess[r].funding = "wallet" => sess[r].consumed = sess[r].preConsumed
  BY <1>2, <1>3 DEF EInv, Exact
<1>5. CASE pc' = [pc EXCEPT ![r] = "fail"] /\ took' = took /\ sess' = sess
  BY <1>1, <1>2, <1>3, <1>5, MoveExact
<1>6. CASE /\ sess[r].funding = "wallet"
           /\ TakeWallet(r, n)
           /\ \/ sess' = [sess EXCEPT ![r].consumed = n] /\ profile[r].image
              \/ sess' = [sess EXCEPT ![r].consumed = @ + n]
           /\ pc' = [pc EXCEPT ![r] = "resToken"]
  <2>1. TookAfter(r, took[r].wallet + n, took[r].sub, took[r].token)
    BY <1>2, <1>6, TakeWalletTook
  <2>2. \/ sess'[r] = [sess[r] EXCEPT !.consumed = n] /\ profile[r].image
        \/ sess'[r] = [sess[r] EXCEPT !.consumed = sess[r].consumed + n]
    BY <1>2, <1>6 DEF SessionsOK
  <2>3. \A f \in Flagged : sess'[r][f] = sess[r][f]
    BY <1>2, <2>2, SessionFields DEF Flagged
  <2>4. SameFlags(r) /\ sess'[r].funding = "wallet"
    BY <1>6, <2>3, KeptFlags
  <2> HIDE DEF n
  <2>5. sess'[r].preConsumed = sess[r].preConsumed
    BY <1>2, <2>2 DEF SessionType
  <2>6. profile[r].image \/ sess'[r].consumed = sess[r].consumed + n
    BY <1>2, <2>2 DEF SessionType
  <2>7. pc'[r] = "resToken" /\ Pending(r)' = n
    BY <1>1, <1>2, <1>6 DEF Pending, n
  <2>8. Flags(r)'
    BY <1>2, <2>4, <2>7 DEF Flags, SameFlags
  <2>9. r \notin logged => Exact(r)'
    BY <1>1, <1>2, <1>4, <1>6, <2>1, <2>4, <2>5, <2>6, <2>7
    DEF Exact, Opening, Paid, TookAfter, TokenPart, Forgetful
  <2> QED
    BY <1>1, <2>8, <2>9
<1>7. CASE /\ sess[r].funding = "subscription"
           /\ TakeSub(r, n)
           /\ sess' = sess
           /\ pc' = [pc EXCEPT ![r] = "resToken"]
  <2>1. TookAfter(r, took[r].wallet, took[r].sub + n, took[r].token)
    <3>1. took[r].sub + n >= 0
      BY <1>2 DEF NoDebt
    <3> QED
      BY <1>2, <1>7, <3>1, NoClamp
  <2>2. pc'[r] = "resToken" /\ Pending(r)' = n
    BY <1>1, <1>2, <1>7 DEF Pending
  <2>3. Flags(r)'
    BY <1>2, <1>7, <2>2 DEF Flags
  <2> HIDE DEF n
  <2>4. r \notin logged => Exact(r)'
    BY <1>1, <1>2, <1>4, <1>7, <2>1, <2>2
    DEF Exact, Opening, Paid, TookAfter, TokenPart, Forgetful
  <2> QED
    BY <1>1, <2>3, <2>4
<1> QED
  BY <1>5, <1>6, <1>7 DEF ReserveFunding, Go, Fault

LEMMA ReserveTokenExact ==
    ASSUME IInv, EInv, NEW r \in Requests, ReserveToken(r)
    PROVE  Flags(r)' /\ (r \in logged' \/ Exact(r)')
<1> DEFINE n == want[r]
<1>1. pc[r] = "resToken" /\ profile' = profile /\ want' = want /\ logged' = logged
  BY DEF ReserveToken
<1>2. /\ TypeOK /\ SessionsOK /\ Flags(r) /\ n \in Nat /\ n \in Int
      /\ sess[r] \in SessionType /\ took[r].token \in Int
      /\ sess[r].consumed \in Int /\ sess[r].preConsumed \in Nat
      /\ pc \in [Requests -> Labels] /\ pc[r] \in Running
      /\ ~sess[r].settled /\ ~sess[r].refunded /\ ~sess[r].fundingSettled
  BY <1>1, ExactAmounts DEF RequestOK, Running, Flags
<1>3. Pending(r) = n
  BY <1>1 DEF Pending
<1>4. r \notin logged /\ ~Forgetful(r) =>
         /\ Paid(r, sess[r].preConsumed + n, sess[r].preConsumed)
         /\ sess[r].funding = "wallet" => sess[r].consumed = sess[r].preConsumed + n
  BY <1>2, <1>3 DEF EInv, Exact
<1>5. CASE pc' = [pc EXCEPT ![r] = "resUndo"] /\ took' = took /\ sess' = sess
  <2>1. pc'[r] = "resUndo" /\ Pending(r)' = n
    BY <1>1, <1>2, <1>5 DEF Pending
  <2>2. Flags(r)'
    BY <1>2, <1>5, <2>1 DEF Flags
  <2>3. r \notin logged => Exact(r)'
    BY <1>1, <1>4, <1>5, <2>1 DEF Exact, Opening, Paid, TokenPart, Forgetful
  <2> QED
    BY <1>1, <2>2, <2>3
<1>6. CASE /\ TakeToken(r, n)
           /\ sess' = [sess EXCEPT ![r].preConsumed = @ + n,
                                   ![r].tokenConsumed = @ + n,
                                   ![r].extraReserved = @ + n,
                                   ![r].trusted = @ /\ ~profile[r].image]
           /\ pc' = [pc EXCEPT ![r] = "upstream"]
  <2>1. TookAfter(r, took[r].wallet, took[r].sub,
                  IF profile[r].playground THEN took[r].token ELSE took[r].token + n)
    BY <1>2, <1>6, TakeTokenTook
  <2>2. sess'[r] = [sess[r] EXCEPT !.preConsumed = sess[r].preConsumed + n,
                                   !.tokenConsumed = sess[r].tokenConsumed + n,
                                   !.extraReserved = sess[r].extraReserved + n,
                                   !.trusted = sess[r].trusted /\ ~profile[r].image]
    BY <1>2, <1>6 DEF SessionsOK, SessionType
  <2>3. \A f \in Flagged : sess'[r][f] = sess[r][f]
    BY <1>2, <2>2, SessionFields DEF Flagged
  <2>4. SameFlags(r) /\ sess'[r].funding = sess[r].funding
    BY <2>3, KeptFlags
  <2> HIDE DEF n
  <2>5. /\ sess'[r].preConsumed = sess[r].preConsumed + n
        /\ sess'[r].consumed = sess[r].consumed
    BY <1>2, <2>2 DEF SessionType
  <2>6. pc'[r] = "upstream" /\ Pending(r)' = 0
    BY <1>2, <1>6 DEF Pending
  <2>7. Flags(r)'
    BY <1>2, <2>4, <2>6 DEF Flags, SameFlags
  <2>8. r \notin logged => Exact(r)'
    BY <1>1, <1>2, <1>4, <2>1, <2>4, <2>5, <2>6
    DEF Exact, Opening, Paid, TookAfter, TokenPart, Forgetful
  <2> QED
    BY <1>1, <2>7, <2>8
<1> QED
  BY <1>5, <1>6 DEF ReserveToken, Go, Fault

LEMMA ReserveUndoExact ==
    ASSUME IInv, EInv, NEW r \in Requests, ReserveUndo(r)
    PROVE  Flags(r)' /\ (r \in logged' \/ Exact(r)')
<1> DEFINE n == want[r]
<1>1. pc[r] = "resUndo" /\ profile' = profile /\ want' = want
  BY DEF ReserveUndo
<1>2. /\ TypeOK /\ SessionsOK /\ SubOwed /\ Flags(r) /\ n \in Nat /\ -n \in Int
      /\ sess[r] \in SessionType /\ FundHeld(r)
      /\ took[r].wallet \in Int /\ took[r].sub \in Int
      /\ sess[r].consumed \in Int /\ sess[r].preConsumed \in Nat
      /\ pc \in [Requests -> Labels] /\ pc[r] \in Running
      /\ ~sess[r].settled /\ ~sess[r].refunded /\ ~sess[r].fundingSettled
  BY <1>1, ExactAmounts DEF RequestOK, Running, Flags
<1>3. Pending(r) = n
  BY <1>1 DEF Pending
<1>4. r \notin logged /\ ~Forgetful(r) =>
         /\ Paid(r, sess[r].preConsumed + n, sess[r].preConsumed)
         /\ sess[r].funding = "wallet" => sess[r].consumed = sess[r].preConsumed + n
  BY <1>2, <1>3 DEF EInv, Exact
<1>5. pc'[r] = "fail" /\ Pending(r)' = 0
  BY <1>2 DEF ReserveUndo, Go, Pending
<1>6. CASE Fault /\ sess' = sess /\ logged' = logged \cup {r}
  <2>1. Flags(r)'
    BY <1>2, <1>5, <1>6 DEF Flags
  <2> QED
    BY <1>6, <2>1
<1>7. CASE /\ sess[r].funding = "wallet"
           /\ TakeWallet(r, -n)
           /\ sess' = [sess EXCEPT ![r].consumed = @ - n]
           /\ logged' = logged
  <2>1. TookAfter(r, took[r].wallet + (-n), took[r].sub, took[r].token)
    BY <1>2, <1>7, TakeWalletTook
  <2>2. sess'[r] = [sess[r] EXCEPT !.consumed = sess[r].consumed - n]
    BY <1>2, <1>7 DEF SessionsOK
  <2>3. \A f \in Flagged : sess'[r][f] = sess[r][f]
    BY <1>2, <2>2, SessionFields DEF Flagged
  <2>4. SameFlags(r) /\ sess'[r].funding = "wallet"
    BY <1>7, <2>3, KeptFlags
  <2> HIDE DEF n
  <2>5. /\ sess'[r].preConsumed = sess[r].preConsumed
        /\ sess'[r].consumed = sess[r].consumed - n
    BY <1>2, <2>2 DEF SessionType
  <2>6. Flags(r)'
    BY <1>2, <1>5, <2>4 DEF Flags, SameFlags
  <2>7. r \notin logged => Exact(r)'
    BY <1>1, <1>2, <1>4, <1>5, <1>7, <2>1, <2>4, <2>5
    DEF Exact, Opening, Paid, TookAfter, TokenPart, Forgetful
  <2> QED
    BY <1>7, <2>6, <2>7
<1>8. CASE /\ sess[r].funding = "subscription"
           /\ TakeSub(r, -n)
           /\ sess' = sess /\ logged' = logged
  <2>1. took[r].sub + (-n) >= 0
    BY <1>2, <1>3, <1>8 DEF FundHeld
  <2>2. TookAfter(r, took[r].wallet, took[r].sub + (-n), took[r].token)
    BY <1>2, <1>8, <2>1, NoClamp
  <2>3. Flags(r)'
    BY <1>2, <1>5, <1>8 DEF Flags
  <2> HIDE DEF n
  <2>4. r \notin logged => Exact(r)'
    BY <1>1, <1>2, <1>4, <1>5, <1>8, <2>2
    DEF Exact, Opening, Paid, TookAfter, TokenPart, Forgetful
  <2> QED
    BY <1>8, <2>3, <2>4
<1> QED
  BY <1>6, <1>7, <1>8 DEF ReserveUndo

LEMMA FailExact ==
    ASSUME IInv, EInv, NEW r \in Requests, Fail(r)
    PROVE  Flags(r)' /\ (r \in logged' \/ Exact(r)')
<1>1. /\ pc[r] = "fail" /\ profile' = profile /\ took' = took /\ want' = want
      /\ logged' = logged
  BY DEF Fail
<1>2. /\ TypeOK /\ SessionsOK /\ FundHeld(r) /\ pc \in [Requests -> Labels]
      /\ Pending(r) = 0 /\ pc[r] \in Running /\ sess[r].funding \in Sources
      /\ sess[r].preConsumed \in Nat /\ sess[r].tokenConsumed \in Nat
      /\ sess[r].subPre \in Nat /\ sess[r].extraReserved \in Nat
      /\ ~sess[r].settled /\ ~sess[r].refunded /\ ~sess[r].fundingSettled
  BY <1>1, ExactAmounts DEF RequestOK, Running, Pending, Flags
<1>3. r \notin logged /\ ~Forgetful(r) =>
         /\ Paid(r, sess[r].preConsumed, sess[r].preConsumed)
         /\ sess[r].funding = "wallet" => sess[r].consumed = sess[r].preConsumed
  BY <1>2 DEF EInv, Exact
<1>4. CASE ~NeedsRefund(r)
  <2>1. pc'[r] = "closed" /\ sess' = sess /\ sess[r].preConsumed = 0
    BY <1>2, <1>4 DEF Fail, Go, NeedsRefund, FundHeld
  <2>2. Flags(r)'
    BY <2>1 DEF Flags, Opening, Running
  <2>3. r \notin logged => Exact(r)'
    BY <1>1, <1>2, <1>3, <2>1
    DEF Exact, Paid, Price, TokenPart, Opening, Running, Forgetful
  <2> QED
    BY <1>1, <2>2, <2>3
<1>5. CASE NeedsRefund(r)
  <2>1. pc'[r] = "refFund" /\ sess' = [sess EXCEPT ![r].refunded = TRUE]
    BY <1>2, <1>5 DEF Fail, Go
  <2>2. SameSession(r)
    BY <1>2, <2>1, OtherFieldAfter
  <2>3. sess'[r].settled = sess[r].settled
    BY <1>2, <2>1 DEF SessionsOK, SessionType
  <2>4. Flags(r)'
    BY <1>2, <2>1, <2>3 DEF Flags, Opening, Running
  <2>5. sess[r].funding # "none"
    <3>1. sess[r].tokenConsumed > 0 \/ sess[r].subPre > 0
      BY <1>5 DEF NeedsRefund
    <3>2. sess[r].tokenConsumed = sess[r].preConsumed
      BY <1>2 DEF FundHeld
    <3>3. sess[r].funding = "none" =>
             sess[r].preConsumed = 0 /\ sess[r].preConsumed = sess[r].subPre + sess[r].extraReserved
      BY <1>2 DEF FundHeld
    <3> QED
      BY <1>2, <3>1, <3>2, <3>3
  <2>6. r \notin logged => Exact(r)'
    BY <1>1, <1>2, <1>3, <2>1, <2>2, <2>5
    DEF Exact, Paid, TokenPart, Opening, Running, Forgetful, SameSession, Session, FundHeld
  <2> QED
    BY <1>1, <2>4, <2>6
<1> QED
  BY <1>4, <1>5

LEMMA RefundFundingExact ==
    ASSUME IInv, EInv, NEW r \in Requests, RefundFunding(r)
    PROVE  Flags(r)' /\ (r \in logged' \/ Exact(r)')
<1>1. pc[r] = "refFund" /\ profile' = profile /\ sess' = sess /\ want' = want
  BY DEF RefundFunding
<1>2. /\ TypeOK /\ SubOwed /\ Flags(r) /\ RequestOK(r) /\ pc \in [Requests -> Labels]
      /\ took[r].wallet \in Int /\ took[r].sub \in Int
      /\ sess[r].consumed \in Int /\ sess[r].subPre \in Nat /\ sess[r].preConsumed \in Nat
      /\ sess[r].extraReserved \in Nat /\ sess[r].funding \in Sources
  BY ExactAmounts
<1>3. pc'[r] = IF sess[r].funding = "subscription" /\ sess[r].extraReserved > 0
               THEN "refExtra" ELSE "refToken"
  BY <1>2 DEF RefundFunding, Go
<1>4. Flags(r)'
  BY <1>1, <1>2, <1>3 DEF Flags, Opening, Running
<1>5. CASE r \in logged'
  BY <1>4, <1>5
<1>6. CASE r \notin logged'
  <2>1. /\ r \notin logged
        /\ IF sess[r].funding = "wallet" THEN TakeWallet(r, -WalletRefund(r))
           ELSE TakeSub(r, -sess[r].subPre)
    BY <1>6 DEF RefundFunding
  <2>2. ~Forgetful(r) =>
           /\ Paid(r, sess[r].preConsumed, sess[r].tokenConsumed)
           /\ sess[r].funding = "wallet" => sess[r].consumed = sess[r].preConsumed
           /\ sess[r].funding # "wallet" =>
                 sess[r].preConsumed = sess[r].subPre + sess[r].extraReserved
           /\ sess[r].funding # "none"
    BY <1>1, <2>1 DEF EInv, Exact
  <2>3. CASE sess[r].funding = "wallet"
    <3>1. -WalletRefund(r) \in Int /\ WalletRefund(r) \in Int
      BY <1>2 DEF WalletRefund
    <3>2. TookAfter(r, took[r].wallet + (-WalletRefund(r)), took[r].sub, took[r].token)
      BY <1>2, <2>1, <2>3, <3>1, TakeWalletTook
    <3>3. ~Forgetful(r) => WalletRefund(r) = took[r].wallet
      BY <1>2, <2>2, <2>3 DEF WalletRefund, Paid
    <3>4. Exact(r)'
      BY <1>1, <1>2, <1>3, <2>2, <2>3, <3>1, <3>2, <3>3
      DEF Exact, Paid, TokenPart, Opening, Running, Forgetful, TookAfter
    <3> QED
      BY <1>4, <3>4
  <2>4. CASE sess[r].funding # "wallet"
    <3>1. -sess[r].subPre \in Int /\ took[r].sub + (-sess[r].subPre) >= 0
      BY <1>1, <1>2, <2>4 DEF RequestOK
    <3>2. TookAfter(r, took[r].wallet, took[r].sub + (-sess[r].subPre), took[r].token)
      BY <1>2, <2>1, <2>4, <3>1, NoClamp
    <3>3. Paid(r, sess[r].extraReserved, sess[r].tokenConsumed)'
      BY <1>1, <1>2, <2>2, <2>4, <3>1, <3>2
      DEF Paid, TokenPart, Forgetful, TookAfter, Sources
    <3>4. Exact(r)'
      BY <1>1, <1>2, <1>3, <2>2, <2>4, <3>3
      DEF Exact, Paid, Opening, Running, Forgetful, Sources
    <3> QED
      BY <1>4, <3>4
  <2> QED
    BY <2>3, <2>4
<1> QED
  BY <1>5, <1>6

LEMMA RefundExtraExact ==
    ASSUME IInv, EInv, NEW r \in Requests, RefundExtra(r)
    PROVE  Flags(r)' /\ (r \in logged' \/ Exact(r)')
<1> DEFINE n == sess[r].extraReserved
<1>1. pc[r] = "refExtra" /\ profile' = profile /\ sess' = sess
  BY DEF RefundExtra
<1>2. /\ TypeOK /\ SubOwed /\ Flags(r) /\ RequestOK(r) /\ pc \in [Requests -> Labels]
      /\ took[r].sub \in Int /\ n \in Nat /\ -n \in Int /\ took[r].sub >= n
      /\ sess[r].funding = "subscription"
  BY <1>1, ExactAmounts DEF RequestOK, Flags
<1>3. pc'[r] = "refToken"
  BY <1>2 DEF RefundExtra, Go
<1>4. Flags(r)'
  BY <1>1, <1>2, <1>3 DEF Flags, Opening, Running
<1>5. CASE r \in logged'
  BY <1>4, <1>5
<1>6. CASE r \notin logged'
  <2>1. r \notin logged /\ TakeSub(r, -n)
    BY <1>6 DEF RefundExtra
  <2>2. took[r].sub + (-n) >= 0
    BY <1>2
  <2>3. TookAfter(r, took[r].wallet, took[r].sub + (-n), took[r].token)
    BY <1>2, <2>1, <2>2, NoClamp
  <2>4. Paid(r, n, sess[r].tokenConsumed)
    BY <1>1, <2>1 DEF EInv, Exact
  <2> HIDE DEF n
  <2>5. Exact(r)'
    BY <1>1, <1>2, <1>3, <2>3, <2>4
    DEF Exact, Paid, TokenPart, Opening, Running, TookAfter
  <2> QED
    BY <1>4, <2>5
<1> QED
  BY <1>5, <1>6

LEMMA RefundTokenExact ==
    ASSUME IInv, EInv, NEW r \in Requests, RefundToken(r)
    PROVE  Flags(r)' /\ (r \in logged' \/ Exact(r)')
<1> DEFINE n == sess[r].tokenConsumed
<1>1. pc[r] = "refToken" /\ profile' = profile /\ sess' = sess
  BY DEF RefundToken
<1>2. /\ TypeOK /\ pc \in [Requests -> Labels] /\ ~sess[r].settled
      /\ took[r].token \in Int /\ n \in Nat /\ -n \in Int
  BY <1>1, ExactAmounts DEF Flags
<1>3. pc'[r] = "closed"
  BY <1>2 DEF RefundToken, Go
<1>4. Flags(r)'
  BY <1>3 DEF Flags, Opening, Running
<1>5. CASE r \in logged'
  BY <1>4, <1>5
<1>6. CASE r \notin logged'
  <2>1. r \notin logged /\ TakeToken(r, -n)
    BY <1>6 DEF RefundToken
  <2>2. TookAfter(r, took[r].wallet, took[r].sub,
                  IF profile[r].playground THEN took[r].token ELSE took[r].token + (-n))
    BY <1>2, <2>1, TakeTokenTook
  <2>3. ~Forgetful(r) => Paid(r, 0, n)
    BY <1>1, <2>1 DEF EInv, Exact
  <2>4. Price(r)' = 0
    BY <1>1, <1>2 DEF Price
  <2>5. Exact(r)'
    BY <1>1, <1>2, <1>3, <2>2, <2>3, <2>4
    DEF Exact, Paid, TokenPart, Opening, Running, TookAfter, Forgetful
  <2> QED
    BY <1>4, <2>5
<1> QED
  BY <1>5, <1>6

LEMMA SettleFundingExact ==
    ASSUME IInv, EInv, NEW r \in Requests, SettleFunding(r)
    PROVE  Flags(r)' /\ (r \in logged' \/ Exact(r)')
<1> DEFINE delta == want[r] - sess[r].preConsumed
<1>1. pc[r] = "setFund" /\ profile' = profile /\ want' = want
  BY DEF SettleFunding
<1>2. /\ TypeOK /\ SessionsOK /\ SubOwed /\ FundHeld(r) /\ pc \in [Requests -> Labels]
      /\ Pending(r) = 0 /\ pc[r] \in Running /\ sess[r] \in SessionType
      /\ took[r].wallet \in Int /\ took[r].sub \in Int
      /\ want[r] \in Nat /\ sess[r].preConsumed \in Nat /\ delta \in Int
      /\ ~sess[r].settled /\ ~sess[r].refunded /\ ~sess[r].fundingSettled
  BY <1>1, ExactAmounts DEF RequestOK, Running, Pending, Flags
<1>3. r \notin logged /\ ~Forgetful(r) =>
         Paid(r, sess[r].preConsumed, sess[r].preConsumed)
  BY <1>2 DEF EInv, Exact
<1>4. CASE /\ delta = 0 /\ took' = took /\ logged' = logged
           /\ sess' = [sess EXCEPT ![r].settled = TRUE]
           /\ pc' = [pc EXCEPT ![r] = "closed"]
  <2>1. SameSession(r) /\ sess'[r].settled = TRUE /\ pc'[r] = "closed"
    BY <1>2, <1>4, OtherFieldAfter DEF SessionsOK, SessionType
  <2>2. Flags(r)'
    BY <2>1 DEF Flags, Opening, Running
  <2>3. want[r] = sess[r].preConsumed
    BY <1>2, <1>4
  <2>4. r \notin logged => Exact(r)'
    BY <1>1, <1>3, <1>4, <2>1, <2>3
    DEF Exact, Paid, Price, TokenPart, Opening, Running, Forgetful, SameSession, Session
  <2> QED
    BY <1>4, <2>2, <2>4
<1>5. CASE /\ \/ sess[r].funding = "wallet" /\ TakeWallet(r, delta)
              \/ sess[r].funding = "subscription" /\ TakeSub(r, delta)
           /\ sess' = [sess EXCEPT ![r].fundingSettled = TRUE]
           /\ pc' = [pc EXCEPT ![r] = "setToken"]
           /\ logged' = logged
  <2>1. SameSession(r) /\ pc'[r] = "setToken"
    BY <1>2, <1>5, OtherFieldAfter
  <2>2. sess'[r].settled = sess[r].settled
    BY <1>2, <1>5 DEF SessionsOK, SessionType
  <2>3. Flags(r)'
    BY <1>2, <2>1, <2>2 DEF Flags, Opening, Running
  <2>4. CASE sess[r].funding = "wallet" /\ TakeWallet(r, delta)
    <3>1. TookAfter(r, took[r].wallet + delta, took[r].sub, took[r].token)
      BY <1>2, <2>4, TakeWalletTook
    <3>2. ~Forgetful(r) /\ r \notin logged => Paid(r, want[r], sess[r].preConsumed)'
      BY <1>1, <1>2, <1>3, <2>1, <2>4, <3>1
      DEF Paid, TokenPart, SameSession, Session, TookAfter
    <3>3. r \notin logged => Exact(r)'
      BY <1>1, <2>1, <3>2 DEF Exact, Opening, Running, Forgetful, SameSession, Session
    <3> QED
      BY <1>5, <2>3, <3>3
  <2>5. CASE sess[r].funding = "subscription" /\ TakeSub(r, delta)
    <3>1. took[r].sub + delta >= 0
      BY <1>2, <2>5 DEF FundHeld
    <3>2. TookAfter(r, took[r].wallet, took[r].sub + delta, took[r].token)
      BY <1>2, <2>5, <3>1, NoClamp
    <3>3. ~Forgetful(r) /\ r \notin logged => Paid(r, want[r], sess[r].preConsumed)'
      BY <1>1, <1>2, <1>3, <2>1, <2>5, <3>2
      DEF Paid, TokenPart, SameSession, Session, TookAfter
    <3>4. r \notin logged => Exact(r)'
      BY <1>1, <2>1, <3>3 DEF Exact, Opening, Running, Forgetful, SameSession, Session
    <3> QED
      BY <1>5, <2>3, <3>4
  <2> QED
    BY <1>5, <2>4, <2>5
<1>6. CASE logged' = logged \cup {r} /\ pc' = [pc EXCEPT ![r] = "closed"]
  <2>1. Flags(r)'
    BY <1>2, <1>6 DEF Flags, Opening, Running
  <2> QED
    BY <1>6, <2>1
<1> QED
  BY <1>4, <1>5, <1>6 DEF SettleFunding, Go

LEMMA SettleTokenExact ==
    ASSUME IInv, EInv, NEW r \in Requests, SettleToken(r)
    PROVE  Flags(r)' /\ (r \in logged' \/ Exact(r)')
<1> DEFINE delta == want[r] - sess[r].preConsumed
<1>1. pc[r] = "setToken" /\ profile' = profile /\ want' = want
  BY DEF SettleToken
<1>2. /\ TypeOK /\ SessionsOK /\ pc \in [Requests -> Labels] /\ sess[r] \in SessionType
      /\ took[r].token \in Int /\ want[r] \in Nat /\ sess[r].preConsumed \in Nat
      /\ delta \in Int
  BY <1>1, ExactAmounts
<1>3. /\ pc'[r] = "closed" /\ SameSession(r) /\ sess'[r].settled = TRUE
  BY <1>2, OtherFieldAfter DEF SettleToken, Go, SessionsOK, SessionType
<1>4. Flags(r)'
  BY <1>3 DEF Flags, Opening, Running
<1>5. CASE r \in logged'
  BY <1>4, <1>5
<1>6. CASE r \notin logged'
  <2>1. r \notin logged /\ TakeToken(r, delta)
    BY <1>6 DEF SettleToken
  <2>2. TookAfter(r, took[r].wallet, took[r].sub,
                  IF profile[r].playground THEN took[r].token ELSE took[r].token + delta)
    BY <1>2, <2>1, TakeTokenTook
  <2>3. ~Forgetful(r) => Paid(r, want[r], sess[r].preConsumed)
    BY <1>1, <2>1 DEF EInv, Exact
  <2>4. Price(r)' = want[r]
    BY <1>1, <1>3 DEF Price
  <2>5. ~Forgetful(r) => Paid(r, want[r], want[r])'
    BY <1>1, <1>2, <1>3, <2>2, <2>3
    DEF Paid, TokenPart, SameSession, Session, TookAfter
  <2>6. Exact(r)'
    BY <1>1, <1>3, <2>4, <2>5
    DEF Exact, Paid, TokenPart, Opening, Running, Forgetful, SameSession, Session
  <2> QED
    BY <1>4, <2>6
<1> QED
  BY <1>5, <1>6

LEMMA OthersExact ==
    ASSUME NEW r \in Requests, Others(r), NEW q \in Requests \ {r},
           Flags(q), q \in logged \/ Exact(q), logged \subseteq logged'
    PROVE  Flags(q)' /\ (q \in logged' \/ Exact(q)')
<1>1. /\ profile' = profile /\ pc'[q] = pc[q] /\ want'[q] = want[q]
      /\ sess'[q] = sess[q] /\ took'[q] = took[q]
  BY DEF Others
<1>2. Flags(q)'
  BY <1>1 DEF Flags
<1>3. Exact(q) => Exact(q)'
  BY <1>1 DEF Exact, Paid, TokenPart, Forgetful, Price, Pending
<1> QED
  BY <1>2, <1>3

LEMMA LogGrows == ASSUME NEW r \in Requests, Step(r) PROVE logged \subseteq logged'
  BY DEF Step, Start, AdmitWallet, AdmitSubscription, PreToken, PreFund, PreUndo,
         Attempt, ReserveFunding, ReserveToken, ReserveUndo, Upstream, Fail,
         RefundFunding, RefundExtra, RefundToken, SettleFunding, SettleToken

LEMMA StepEInv ==
    ASSUME IInv, IInv', EInv, NEW r \in Requests, Step(r) PROVE EInv'
<1>1. SubOwed'
  BY SubOwedStep DEF EInv
<1>2. Flags(r)' /\ (r \in logged' \/ Exact(r)')
  BY StartExact, AdmitWalletExact, PreTokenExact, PreFundExact, PreUndoExact,
     AttemptExact, ReserveFundingExact, ReserveTokenExact, ReserveUndoExact, FailExact,
     RefundFundingExact, RefundExtraExact, RefundTokenExact, SettleFundingExact,
     SettleTokenExact
  DEF Step
<1>3. ASSUME NEW q \in Requests \ {r} PROVE Flags(q)' /\ (q \in logged' \/ Exact(q)')
  <2>1. Others(r) /\ Flags(q) /\ (q \in logged \/ Exact(q)) /\ logged \subseteq logged'
    BY <1>3, StepOthers, LogGrows DEF IInv, EInv
  <2> QED
    BY <1>3, <2>1, OthersExact
<1> QED
  BY <1>1, <1>2, <1>3 DEF EInv

LEMMA InitEInv == Init => EInv
<1> SUFFICES ASSUME Init PROVE EInv
  OBVIOUS
<1>1. SubTaken \in [Requests -> Int] /\ \A r \in Requests : SubTaken[r] <= 0
  BY DEF Init, SubTaken
<1>2. SubOwed
  BY <1>1, NothingToSum DEF SubOwed, Init
<1>3. ASSUME NEW r \in Requests PROVE Flags(r) /\ Exact(r)
  BY <1>3
  DEF Init, Flags, Exact, Opening, Running, NoSession, FreshSession, TokenPart
<1> QED
  BY <1>2, <1>3 DEF EInv

LEMMA AlwaysEInv == Spec => [](IInv /\ EInv)
<1>1. IInv /\ EInv /\ [Next]_vars => (IInv /\ EInv)'
  <2> SUFFICES ASSUME IInv, EInv, [Next]_vars PROVE (IInv /\ EInv)'
    OBVIOUS
  <2>1. ASSUME NEW r \in Requests, Step(r) PROVE (IInv /\ EInv)'
    BY <2>1, StepIInv, StepEInv
  <2>2. CASE Done \/ UNCHANGED vars
    <3>1. UNCHANGED vars
      BY <2>2 DEF Done
    <3>2. IInv'
      BY <3>1
      DEF vars, IInv, TypeOK, CountersOK, ControlOK, SessionsOK, WithinPlan,
          RequestOK, NoDebt, TokenHeld, FundHeld, Pending, Effective, Nothing
    <3>3. EInv'
      BY <3>1
      DEF vars, EInv, SubOwed, SubTaken, Flags, Exact, Paid, TokenPart, Forgetful,
          Price, Pending
    <3> QED
      BY <3>2, <3>3
  <2> QED
    BY <2>1, <2>2 DEF Next
<1> QED
  BY <1>1, InitIInv, InitEInv, PTL DEF Spec

LEMMA ExactLedger == ASSUME IInv, EInv PROVE LedgerExact
<1> SUFFICES ASSUME NEW r \in Requests, pc[r] = "closed", r \notin logged,
                    ~(profile[r].image /\ sess[r].funding = "wallet")
             PROVE  took[r] = Charge(r, sess[r].funding,
                                     IF sess[r].settled THEN want[r] ELSE 0)
  BY DEF LedgerExact
<1>1. Paid(r, Price(r), Price(r))
  BY DEF EInv, Exact, Forgetful
<1>2. took[r] \in [wallet : Int, token : Int, sub : Int]
  BY DEF IInv, TypeOK, CountersOK
<1>3. took[r] = [wallet |-> took[r].wallet, sub |-> took[r].sub, token |-> took[r].token]
  BY <1>2
<1> QED
  BY <1>1, <1>3 DEF Charge, Paid, Price, TokenPart

\* A closed request has cost exactly its actual price if it was settled, and
\* nothing if it was refused or refunded, for any number of concurrent requests,
\* prices, billing preferences, retries and storage failures, unless the code
\* logged a billing error for it (or it was an image request on the wallet, whose
\* WalletFunding.PreConsume overwrites consumed).
THEOREM LedgerIsExact == Spec => []LedgerExact
  BY AlwaysEInv, ExactLedger, PTL

\* Concurrent requests never use more of a subscription than its plan grants, and
\* its amount_used never falls below what a request still holds, although
\* PostConsumeUserSubscriptionDelta cuts negative usage off at zero.
THEOREM PlanCountsWhatIsHeld == Spec => []SubscriptionWithinPlan
<1>1. IInv /\ EInv => SubscriptionWithinPlan
  BY SubOwedBounds DEF SubscriptionWithinPlan, IInv, EInv
<1> QED
  BY <1>1, AlwaysEInv, PTL

-----------------------------------------------------------------------------
(* Debt: what the wallet and the token are short of was taken unchecked.   *)

\* What r took from the wallet beyond its checked deductions; an image request
\* checks the balance when it reserves.
WalletOver(r) ==
    took[r].wallet - sess[r].preConsumed
       + (IF profile[r].image THEN 0 - Pending(r) ELSE sess[r].extraReserved)

TokenOver(r) == took[r].token - sess[r].tokenConsumed

WalletOvers == [r \in Requests |-> WalletOver(r)]
TokenOvers == [r \in Requests |-> TokenOver(r)]

\* Only a session on the wallet takes from it, and the playground has no token.
OwnPurse(r) ==
    /\ pc[r] \in Opening \/ sess[r].funding # "wallet" => took[r].wallet = 0
    /\ profile[r].playground => took[r].token = 0

DInv ==
    /\ \A r \in Requests : OwnPurse(r)
    /\ Summable(WalletOvers) /\ wallet + Total(WalletOvers) >= 0
    /\ Summable(TokenOvers) /\ (TokenUnlimited \/ token + Total(TokenOvers) >= 0)

\* What a step of r owes to the wallet and to the token it owes openly.
Honest(r) ==
    /\ OwnPurse(r)'
    /\ \/ wallet' >= 0
       \/ wallet' + Positive(WalletOver(r)') >= wallet + Positive(WalletOver(r))
    /\ \/ TokenUnlimited \/ token' >= 0
       \/ token' + Positive(TokenOver(r)') >= token + Positive(TokenOver(r))

LEMMA DebtAmounts ==
    ASSUME IInv, NEW r \in Requests
    PROVE  /\ TypeOK /\ SessionsOK /\ RequestOK(r) /\ sess[r] \in SessionType
           /\ took[r].wallet \in Int /\ took[r].sub \in Int /\ took[r].token \in Int
           /\ want[r] \in Nat /\ Effective(r) \in Nat /\ Pending(r) \in Nat
           /\ sess[r].tokenConsumed \in Nat /\ sess[r].extraReserved \in Nat
           /\ sess[r].preConsumed \in Nat /\ sess[r].subPre \in Nat
           /\ sess[r].consumed \in Int
           /\ pc \in [Requests -> Labels] /\ sess[r].funding \in Sources
           /\ wallet \in Int /\ token \in Int
           /\ WalletOver(r) \in Int /\ TokenOver(r) \in Int
<1>1. Pending(r) \in Nat /\ sess[r].funding \in Sources /\ wallet \in Int /\ token \in Int
  BY Amounts DEF Pending, SessionType, TypeOK, CountersOK
<1>2. WalletOver(r) \in Int /\ TokenOver(r) \in Int
  BY <1>1, Amounts DEF WalletOver, TokenOver
<1> QED
  BY <1>1, <1>2, Amounts

\* Nothing is taken, and the session stays as it is or starts anew from nothing.
LEMMA IdleIsHonest ==
    ASSUME IInv, NEW r \in Requests, OwnPurse(r), UNCHANGED <<wallet, token, took>>,
           profile' = profile, Pending(r)' = Pending(r),
           \/ SameSession(r)
           \/ /\ \E source : Session(r, source, 0, 0, 0, 0, 0)
              /\ sess[r].preConsumed = 0 /\ sess[r].extraReserved = 0
              /\ sess[r].tokenConsumed = 0,
           pc'[r] \in Opening \/ sess'[r].funding # "wallet" =>
              pc[r] \in Opening \/ sess[r].funding # "wallet"
    PROVE  Honest(r)
<1>1. OwnPurse(r)'
  BY DEF OwnPurse
<1>2. WalletOver(r)' = WalletOver(r) /\ TokenOver(r)' = TokenOver(r)
  BY DEF WalletOver, TokenOver, SameSession, Session
<1>3. /\ wallet \in Int /\ token \in Int
      /\ Positive(WalletOver(r)) \in Int /\ Positive(TokenOver(r)) \in Int
  BY DebtAmounts DEF Positive
<1> QED
  BY <1>1, <1>2, <1>3 DEF Honest

LEMMA StartHonest ==
    ASSUME IInv, NEW r \in Requests, OwnPurse(r),
           Start(r) \/ AdmitSubscription(r) \/ AdmitWallet(r)
    PROVE  Honest(r)
<1>1. /\ pc[r] \in {"start", "admit"} /\ profile' = profile
      /\ UNCHANGED <<wallet, token, took>>
  BY DEF Start, AdmitSubscription, AdmitWallet, Fault
<1>2. TypeOK /\ SessionsOK /\ RequestOK(r) /\ pc \in [Requests -> Labels]
  BY DebtAmounts
<1>3. Nothing(sess[r]) /\ sess[r].tokenConsumed = 0 /\ pc[r] \in Opening
  BY <1>1, <1>2 DEF RequestOK, Opening
<1>4. \/ SameSession(r)
      \/ \E source : Session(r, source, 0, 0, 0, 0, 0)
  <2>1. \/ sess' = sess
        \/ sess' = [sess EXCEPT ![r].trusted = ShouldTrust(r)]
        \/ \E source, b : sess' = [sess EXCEPT ![r] = FreshSession(source, b)]
    BY DEF Start, OpenSession, AdmitSubscription, AdmitWallet, Insufficient, Drop, NoSession
  <2> QED
    BY <1>2, <2>1, OtherFieldAfter, FreshAfter
<1>5. pc'[r] \in {"attempt", "closed", "admit", "preFund", "preToken"}
  BY <1>2 DEF Start, OpenSession, AdmitSubscription, AdmitWallet, Insufficient, Drop, Go
<1>6. Pending(r) = 0 /\ Pending(r)' = 0
  BY <1>1, <1>5 DEF Pending
<1> QED
  BY <1>1, <1>3, <1>4, <1>6, IdleIsHonest DEF Nothing

LEMMA MoveHonest ==
    ASSUME IInv, NEW r \in Requests, OwnPurse(r), Attempt(r) \/ Upstream(r) \/ Fail(r)
    PROVE  Honest(r)
<1>1. /\ pc[r] \in {"attempt", "upstream", "fail"} /\ profile' = profile
      /\ UNCHANGED <<wallet, token, took>>
  BY DEF Attempt, Upstream, Fail
<1>2. /\ TypeOK /\ SessionsOK /\ FundHeld(r) /\ pc \in [Requests -> Labels]
      /\ sess[r].subPre \in Nat /\ sess[r].extraReserved \in Nat
      /\ sess[r].preConsumed \in Nat
  BY <1>1, DebtAmounts DEF RequestOK, Running
<1>3. sess[r].funding = "none" =>
         sess[r].preConsumed = 0 /\ sess[r].extraReserved = 0 /\ sess[r].tokenConsumed = 0
  BY <1>2 DEF FundHeld
<1>4. pc'[r] \in {"fail", "upstream", "admit", "resFund", "closed", "setFund",
                  "attempt", "refFund"}
  BY <1>2 DEF Attempt, OpenSession, Upstream, Fail, Go
<1>5. Pending(r) = 0 /\ Pending(r)' = 0
  BY <1>1, <1>4 DEF Pending
<1>6. \/ SameSession(r) /\ pc'[r] # "admit"
      \/ sess[r].funding = "none" /\ \E source : Session(r, source, 0, 0, 0, 0, 0)
  <2>1. \/ sess' = sess /\ pc'[r] # "admit"
        \/ sess' = [sess EXCEPT ![r].refunded = TRUE] /\ pc'[r] # "admit"
        \/ /\ sess[r].funding = "none"
           /\ \E source, b : sess' = [sess EXCEPT ![r] = FreshSession(source, b)]
    BY <1>2 DEF Attempt, OpenSession, Upstream, Fail, Go
  <2> QED
    BY <1>2, <2>1, OtherFieldAfter, FreshAfter
<1>7. pc'[r] \in Opening \/ sess'[r].funding # "wallet" =>
         pc[r] \in Opening \/ sess[r].funding # "wallet"
  BY <1>1, <1>4, <1>6 DEF Opening, SameSession, Session
<1> QED
  BY <1>1, <1>3, <1>5, <1>6, <1>7, IdleIsHonest

LEMMA PreTokenHonest ==
    ASSUME IInv, NEW r \in Requests, OwnPurse(r), PreToken(r) PROVE Honest(r)
<1> DEFINE n == Effective(r)
<1>1. pc[r] = "preToken" /\ profile' = profile
  BY DEF PreToken
<1>2. /\ TypeOK /\ SessionsOK /\ RequestOK(r) /\ pc \in [Requests -> Labels]
      /\ n \in Nat /\ sess[r] \in SessionType /\ wallet \in Int /\ token \in Int
      /\ took[r].token \in Int /\ took[r].wallet = 0
  BY <1>1, DebtAmounts DEF OwnPurse, Opening
<1>3. Nothing(sess[r]) /\ sess[r].tokenConsumed = 0 /\ Pending(r) = 0
  BY <1>1, <1>2 DEF RequestOK, Pending
<1>4. CASE /\ pc' = [pc EXCEPT ![r] = "closed"] /\ UNCHANGED <<wallet, token, took>>
           /\ sess' = [sess EXCEPT ![r] = FreshSession("none", FALSE)]
  <2>1. Session(r, "none", 0, 0, 0, 0, 0) /\ pc'[r] = "closed" /\ Pending(r)' = 0
    BY <1>2, <1>4, FreshAfter DEF Pending
  <2> QED
    BY <1>1, <1>3, <1>4, <2>1, IdleIsHonest DEF Nothing, Opening
<1>5. CASE /\ TakeToken(r, n) /\ TokenAccepts(r, n)
           /\ sess' = [sess EXCEPT ![r].tokenConsumed = n]
           /\ pc' = [pc EXCEPT ![r] = "preFund"]
  <2>1. TookAfter(r, took[r].wallet, took[r].sub,
                  IF profile[r].playground THEN took[r].token ELSE took[r].token + n)
    BY <1>2, <1>5, TakeTokenTook
  <2>2. sess'[r] = [sess[r] EXCEPT !.tokenConsumed = n] /\ pc'[r] = "preFund"
    BY <1>2, <1>5 DEF SessionsOK
  <2>3. /\ sess'[r].tokenConsumed = n /\ sess'[r].preConsumed = 0
        /\ sess'[r].extraReserved = 0 /\ Pending(r)' = 0
    BY <1>2, <1>3, <2>2 DEF SessionType, Nothing, Pending
  <2> HIDE DEF n
  <2>4. OwnPurse(r)'
    BY <1>1, <1>2, <2>1 DEF OwnPurse, TookAfter
  <2>5. wallet' = wallet /\ WalletOver(r)' = WalletOver(r)
    BY <1>1, <1>2, <1>3, <1>5, <2>1, <2>3 DEF TakeToken, WalletOver, TookAfter, Nothing
  <2>6. Positive(WalletOver(r)) \in Int
    BY DebtAmounts DEF Positive
  <2>7. CASE profile[r].playground
    <3>1. token' = token /\ Positive(TokenOver(r)) = 0 /\ Positive(TokenOver(r)') = 0
      BY <1>1, <1>2, <1>3, <1>5, <2>1, <2>3, <2>4, <2>7
      DEF TakeToken, TokenOver, Positive, OwnPurse
    <3> QED
      BY <1>2, <2>4, <2>5, <2>6, <3>1 DEF Honest
  <2>8. CASE ~profile[r].playground
    <3>1. TokenUnlimited \/ token' >= 0
      BY <1>2, <1>5, <2>8 DEF TakeToken, TokenAccepts
    <3> QED
      BY <1>2, <2>4, <2>5, <2>6, <3>1 DEF Honest
  <2> QED
    BY <2>7, <2>8
<1> QED
  BY <1>4, <1>5 DEF PreToken, Drop, Go, Fault, NoSession

\* A step that leaves the token alone.
LEMMA SameToken ==
    ASSUME IInv, NEW r \in Requests, token' = token, took'[r].token = took[r].token,
           sess'[r].tokenConsumed = sess[r].tokenConsumed
    PROVE  token' + Positive(TokenOver(r)') >= token + Positive(TokenOver(r))
<1>1. TokenOver(r)' = TokenOver(r)
  BY DEF TokenOver
<1>2. token \in Int /\ Positive(TokenOver(r)) \in Int
  BY DebtAmounts DEF Positive
<1> QED
  BY <1>1, <1>2

\* A step that leaves the wallet alone, of a session that is not on it.
LEMMA SameWallet ==
    ASSUME IInv, NEW r \in Requests, wallet' = wallet, WalletOver(r) <= 0,
           WalletOver(r)' \in Int
    PROVE  wallet' + Positive(WalletOver(r)') >= wallet + Positive(WalletOver(r))
  BY DebtAmounts DEF Positive

\* A session that is not on the wallet has taken nothing from it.
LEMMA OffWallet ==
    ASSUME IInv, NEW r \in Requests, took[r].wallet = 0,
           sess[r].extraReserved <= sess[r].preConsumed
    PROVE  WalletOver(r) <= 0
  BY DebtAmounts DEF WalletOver

\* n is taken from the wallet without a check, or paid back.
LEMMA OverMoves ==
    ASSUME IInv, NEW r \in Requests, NEW n \in Int, wallet' = wallet - n,
           WalletOver(r)' = WalletOver(r) + n, n <= 0 \/ WalletOver(r) >= 0
    PROVE  wallet' + Positive(WalletOver(r)') >= wallet + Positive(WalletOver(r))
<1>1. wallet \in Int /\ WalletOver(r) \in Int
  BY DebtAmounts
<1>2. ASSUME NEW x \in Int, n <= 0 \/ x >= 0 PROVE Positive(x + n) >= Positive(x) + n
  BY <1>2 DEF Positive
<1>3. ASSUME NEW x \in Int PROVE Positive(x) \in Int
  BY DEF Positive
<1>4. Positive(WalletOver(r)') >= Positive(WalletOver(r)) + n
  BY <1>1, <1>2
<1>5. Positive(WalletOver(r)') \in Int /\ Positive(WalletOver(r)) \in Int
  BY <1>1, <1>3
<1> HIDE DEF WalletOver
<1> QED
  BY <1>1, <1>4, <1>5

LEMMA PreFundHonest ==
    ASSUME IInv, NEW r \in Requests, OwnPurse(r), PreFund(r) PROVE Honest(r)
<1> DEFINE n == Effective(r)
<1>1. pc[r] = "preFund" /\ profile' = profile
  BY DEF PreFund
<1>2. /\ TypeOK /\ SessionsOK /\ n \in Nat /\ n \in Int /\ sess[r] \in SessionType
      /\ Nothing(sess[r]) /\ pc \in [Requests -> Labels] /\ wallet \in Int
      /\ took[r].wallet = 0 /\ sess[r].funding # "none" /\ Pending(r) = 0
  BY <1>1, DebtAmounts DEF RequestOK, OwnPurse, Opening, Pending
<1>3. CASE /\ pc' = [pc EXCEPT ![r] = "preUndo"] /\ UNCHANGED <<wallet, token, took>>
           /\ (sess' = sess \/ sess' = [sess EXCEPT ![r].funding = "none"])
  <2>1. \/ sess'[r] = sess[r]
        \/ sess'[r] = [sess[r] EXCEPT !.funding = "none"]
    BY <1>2, <1>3 DEF SessionsOK
  <2>2. /\ sess'[r].tokenConsumed = sess[r].tokenConsumed
        /\ sess'[r].preConsumed = 0 /\ sess'[r].extraReserved = 0
        /\ pc'[r] = "preUndo" /\ Pending(r)' = 0
    BY <1>2, <1>3, <2>1 DEF SessionType, Nothing, Pending
  <2>3. OwnPurse(r)'
    BY <1>1, <1>2, <1>3 DEF OwnPurse
  <2>4. WalletOver(r) = 0 /\ WalletOver(r)' = 0
    BY <1>1, <1>2, <1>3, <2>2 DEF WalletOver, Nothing
  <2>5. wallet' + Positive(WalletOver(r)') >= wallet + Positive(WalletOver(r))
    BY <1>3, <2>4, SameWallet
  <2>6. token' + Positive(TokenOver(r)') >= token + Positive(TokenOver(r))
    BY <1>3, <2>2, SameToken
  <2> QED
    BY <2>3, <2>5, <2>6 DEF Honest
<1>4. CASE /\ sess[r].funding = "wallet" /\ FundAccepts(r, n)
           /\ TakeWallet(r, n)
           /\ sess' = [sess EXCEPT ![r].consumed = n, ![r].preConsumed = n]
           /\ pc' = [pc EXCEPT ![r] = "attempt"]
  <2>1. TookAfter(r, took[r].wallet + n, took[r].sub, took[r].token)
    BY <1>2, <1>4, TakeWalletTook
  <2>2. sess'[r] = [sess[r] EXCEPT !.consumed = n, !.preConsumed = n] /\ pc'[r] = "attempt"
    BY <1>2, <1>4 DEF SessionsOK
  <2> HIDE DEF n
  <2>3. \A f \in Flagged : sess'[r][f] = sess[r][f]
    BY <1>2, <2>2, SessionFields DEF Flagged
  <2>4. sess'[r].funding = "wallet"
    BY <1>4, <2>3, KeptFlags
  <2>5. sess'[r].tokenConsumed = sess[r].tokenConsumed
    BY <1>2, <2>2 DEF SessionType
  <2>6. sess'[r].extraReserved = 0
    BY <1>2, <2>2 DEF SessionType, Nothing
  <2>7. sess'[r].preConsumed = n
    BY <1>2, <2>2 DEF SessionType
  <2>8. OwnPurse(r)'
    BY <1>1, <2>1, <2>2, <2>4 DEF OwnPurse, TookAfter, Opening
  <2>9. wallet' = wallet - n /\ token' = token
    BY <1>4 DEF TakeWallet
  <2>10. n = 0 \/ wallet >= n
    BY <1>4 DEF FundAccepts
  <2>11. CASE n = 0
    <3>1. Pending(r)' = 0
      BY <2>2 DEF Pending
    <3>2. WalletOver(r)' = 0 /\ WalletOver(r) = 0
      BY <1>1, <1>2, <2>1, <2>6, <2>7, <2>11, <3>1 DEF WalletOver, TookAfter, Nothing
    <3>3. wallet' = wallet
      BY <1>2, <2>9, <2>11
    <3>4. wallet' + Positive(WalletOver(r)') >= wallet + Positive(WalletOver(r))
      BY <3>2, <3>3, SameWallet
    <3>5. token' + Positive(TokenOver(r)') >= token + Positive(TokenOver(r))
      BY <2>1, <2>5, <2>9, SameToken DEF TookAfter
    <3> QED
      BY <2>8, <3>4, <3>5 DEF Honest
  <2>12. CASE wallet >= n
    BY <1>2, <2>1, <2>5, <2>8, <2>9, <2>12, SameToken DEF Honest, TookAfter
  <2> QED
    BY <2>10, <2>11, <2>12
<1>5. CASE /\ sess[r].funding # "wallet"
           /\ TakeSub(r, n)
           /\ sess' = [sess EXCEPT ![r].subPre = n, ![r].preConsumed = n]
           /\ pc' = [pc EXCEPT ![r] = "attempt"]
  <2>1. TookAfter(r, took[r].wallet, took'[r].sub, took[r].token)
    BY <1>2, <1>5, TakeSubTook
  <2>2. sess'[r] = [sess[r] EXCEPT !.subPre = n, !.preConsumed = n] /\ pc'[r] = "attempt"
    BY <1>2, <1>5 DEF SessionsOK
  <2> HIDE DEF n
  <2>3. sess'[r].tokenConsumed = sess[r].tokenConsumed /\ sess'[r].extraReserved = 0
    BY <1>2, <2>2 DEF SessionType, Nothing
  <2>4. sess'[r].preConsumed = n
    BY <1>2, <2>2 DEF SessionType
  <2>5. OwnPurse(r)'
    BY <1>1, <1>2, <2>1 DEF OwnPurse, TookAfter
  <2>6. wallet' = wallet /\ token' = token
    BY <1>5 DEF TakeSub
  <2>7. Pending(r)' = 0
    BY <2>2 DEF Pending
  <2>8. WalletOver(r) = 0 /\ WalletOver(r)' \in Int
    BY <1>1, <1>2, <2>1, <2>3, <2>4, <2>7 DEF WalletOver, TookAfter, Nothing
  <2>9. wallet' + Positive(WalletOver(r)') >= wallet + Positive(WalletOver(r))
    BY <2>6, <2>8, SameWallet
  <2>10. token' + Positive(TokenOver(r)') >= token + Positive(TokenOver(r))
    BY <2>1, <2>3, <2>6, SameToken DEF TookAfter
  <2> QED
    BY <2>5, <2>9, <2>10 DEF Honest
<1> QED
  BY <1>3, <1>4, <1>5 DEF PreFund, Go, Fault

\* A token is given back what the session took: it is short of no more than before.
LEMMA TokenBack ==
    ASSUME IInv, NEW r \in Requests, NEW n \in Int, TakeToken(r, n),
           TokenOver(r)' \in Int, n <= 0 \/ TokenOver(r) >= 0 \/ profile[r].playground,
           IF profile[r].playground THEN TokenOver(r) <= 0
           ELSE TokenOver(r)' >= TokenOver(r) + n
    PROVE  token' + Positive(TokenOver(r)') >= token + Positive(TokenOver(r))
<1>1. token \in Int /\ TokenOver(r) \in Int
  BY DebtAmounts
<1>2. CASE profile[r].playground
  BY <1>1, <1>2 DEF TakeToken, Positive
<1>3. CASE ~profile[r].playground
  <2>1. ASSUME NEW x \in Int, NEW y \in Int, y >= x + n, n <= 0 \/ x >= 0
        PROVE  Positive(y) >= Positive(x) + n
    BY <2>1 DEF Positive
  <2>2. ASSUME NEW x \in Int PROVE Positive(x) \in Int
    BY DEF Positive
  <2>3. Positive(TokenOver(r)') >= Positive(TokenOver(r)) + n
    BY <1>1, <1>3, <2>1
  <2>4. Positive(TokenOver(r)') \in Int /\ Positive(TokenOver(r)) \in Int
    BY <1>1, <2>2
  <2>5. token' = token - n
    BY <1>3 DEF TakeToken
  <2> QED
    BY <1>1, <2>3, <2>4, <2>5
<1> QED
  BY <1>2, <1>3

LEMMA PreUndoHonest ==
    ASSUME IInv, NEW r \in Requests, OwnPurse(r), PreUndo(r) PROVE Honest(r)
<1> DEFINE next == Fallback(r, sess[r].funding)
           n == sess[r].tokenConsumed
<1>1. pc[r] = "preUndo" /\ profile' = profile
  BY DEF PreUndo
<1>2. /\ TypeOK /\ SessionsOK /\ n \in Nat /\ took[r].token \in Int /\ wallet \in Int
      /\ Nothing(sess[r]) /\ took[r].wallet = 0 /\ pc \in [Requests -> Labels]
      /\ Pending(r) = 0 /\ token \in Int
  BY <1>1, DebtAmounts DEF RequestOK, OwnPurse, Opening, Pending
<1>3. /\ pc'[r] \in {"admit", "closed"}
      /\ sess' = [sess EXCEPT ![r] = FreshSession(next, sess[r].tokenTrusted)]
  BY <1>2 DEF PreUndo, Insufficient, Go
<1>4. Session(r, next, 0, 0, 0, 0, 0) /\ Pending(r)' = 0
  BY <1>2, <1>3, FreshAfter DEF Pending
<1>5. CASE Fault
  <2>1. OwnPurse(r)'
    BY <1>1, <1>2, <1>5 DEF OwnPurse, Fault
  <2>2. WalletOver(r) = 0 /\ WalletOver(r)' = 0
    BY <1>1, <1>2, <1>4, <1>5 DEF WalletOver, Nothing, Session, Fault
  <2>3. TokenOver(r)' = TokenOver(r) + n
    BY <1>2, <1>4, <1>5 DEF TokenOver, Session, Fault
  <2>4. token' + Positive(TokenOver(r)') >= token + Positive(TokenOver(r))
    BY <1>2, <1>5, <2>3, DebtAmounts DEF Fault, Positive
  <2>5. wallet' + Positive(WalletOver(r)') >= wallet + Positive(WalletOver(r))
    BY <1>5, <2>2, SameWallet DEF Fault
  <2> QED
    BY <2>1, <2>4, <2>5 DEF Honest
<1>6. CASE TakeToken(r, -n)
  <2>1. -n \in Int /\ -n <= 0
    BY <1>2
  <2>2. TookAfter(r, took[r].wallet, took[r].sub,
                  IF profile[r].playground THEN took[r].token ELSE took[r].token + (-n))
    BY <1>2, <1>6, <2>1, TakeTokenTook
  <2>3. OwnPurse(r)'
    BY <1>1, <1>2, <2>2 DEF OwnPurse, TookAfter
  <2>4. WalletOver(r) = 0 /\ WalletOver(r)' = 0
    BY <1>1, <1>2, <1>4, <2>2 DEF WalletOver, Nothing, Session, TookAfter
  <2>5. /\ TokenOver(r)' = took'[r].token /\ TokenOver(r)' \in Int
        /\ IF profile[r].playground THEN TokenOver(r) <= 0
           ELSE TokenOver(r)' >= TokenOver(r) + (-n)
    BY <1>2, <1>4, <2>2 DEF TokenOver, Session, TookAfter, OwnPurse
  <2>6. token' + Positive(TokenOver(r)') >= token + Positive(TokenOver(r))
    BY <1>6, <2>1, <2>5, TokenBack
  <2>7. wallet' + Positive(WalletOver(r)') >= wallet + Positive(WalletOver(r))
    BY <1>6, <2>4, SameWallet DEF TakeToken
  <2> QED
    BY <2>3, <2>6, <2>7 DEF Honest
<1> QED
  BY <1>5, <1>6 DEF PreUndo

\* The fields that say what a session owes.
KeptAmounts(r) ==
    /\ sess'[r].funding = sess[r].funding
    /\ sess'[r].preConsumed = sess[r].preConsumed
    /\ sess'[r].tokenConsumed = sess[r].tokenConsumed
    /\ sess'[r].extraReserved = sess[r].extraReserved

LEMMA ConsumedAlone ==
    ASSUME SessionsOK, NEW r \in Requests, NEW c,
           sess' = [sess EXCEPT ![r].consumed = c]
    PROVE  KeptAmounts(r)
<1>1. sess[r] \in SessionType /\ sess'[r] = [sess[r] EXCEPT !.consumed = c]
  BY DEF SessionsOK
<1> QED
  BY <1>1 DEF SessionType, KeptAmounts

LEMMA OverGrows ==
    ASSUME IInv, NEW r \in Requests, wallet' \in Int, wallet' >= wallet,
           WalletOver(r)' \in Int, WalletOver(r)' >= WalletOver(r) \/ WalletOver(r) <= 0
    PROVE  wallet' + Positive(WalletOver(r)') >= wallet + Positive(WalletOver(r))
<1>1. wallet \in Int /\ WalletOver(r) \in Int
  BY DebtAmounts
<1>2. ASSUME NEW x \in Int, NEW y \in Int, y >= x \/ x <= 0
      PROVE  Positive(y) >= Positive(x) /\ Positive(x) \in Int /\ Positive(y) \in Int
  BY <1>2 DEF Positive
<1>3. /\ Positive(WalletOver(r)') >= Positive(WalletOver(r))
      /\ Positive(WalletOver(r)') \in Int /\ Positive(WalletOver(r)) \in Int
  BY <1>1, <1>2
<1> QED
  BY <1>1, <1>3

\* The subscription is charged or paid back; the wallet and the token are not.
LEMMA TakeSubHonest ==
    ASSUME IInv, NEW r \in Requests, OwnPurse(r), NEW n \in Int, TakeSub(r, n),
           profile' = profile, KeptAmounts(r), pc'[r] \notin Opening,
           Pending(r)' \in Nat, Pending(r)' = Pending(r) \/ WalletOver(r) <= 0
    PROVE  Honest(r)
<1>1. TypeOK /\ took[r].wallet \in Int /\ sess[r].preConsumed \in Nat
      /\ sess[r].extraReserved \in Nat /\ wallet \in Int /\ WalletOver(r) \in Int
  BY DebtAmounts
<1>2. TookAfter(r, took[r].wallet, took'[r].sub, took[r].token)
  BY <1>1, TakeSubTook
<1>3. wallet' = wallet /\ token' = token
  BY DEF TakeSub
<1>4. OwnPurse(r)'
  BY <1>2 DEF OwnPurse, TookAfter, KeptAmounts
<1>5. WalletOver(r)' \in Int
  BY <1>1, <1>2 DEF WalletOver, TookAfter, KeptAmounts
<1>6. Pending(r)' = Pending(r) => WalletOver(r)' = WalletOver(r)
  BY <1>2 DEF WalletOver, TookAfter, KeptAmounts
<1>7. wallet' + Positive(WalletOver(r)') >= wallet + Positive(WalletOver(r))
  BY <1>1, <1>3, <1>5, <1>6, OverGrows
<1>8. token' + Positive(TokenOver(r)') >= token + Positive(TokenOver(r))
  BY <1>2, <1>3, SameToken DEF TookAfter, KeptAmounts
<1> QED
  BY <1>4, <1>7, <1>8 DEF Honest

\* The wallet is charged without a check, or paid back.
LEMMA TakeWalletHonest ==
    ASSUME IInv, NEW r \in Requests, OwnPurse(r), NEW n \in Int, TakeWallet(r, n),
           profile' = profile, KeptAmounts(r), pc'[r] \notin Opening,
           sess[r].funding = "wallet", Pending(r)' = Pending(r) \/ ~profile[r].image,
           n <= 0 \/ WalletOver(r) >= 0
    PROVE  Honest(r)
<1>1. TypeOK /\ took[r].wallet \in Int /\ sess[r].preConsumed \in Nat
      /\ sess[r].extraReserved \in Nat /\ wallet \in Int /\ WalletOver(r) \in Int
      /\ Pending(r) \in Nat
  BY DebtAmounts
<1>2. TookAfter(r, took[r].wallet + n, took[r].sub, took[r].token)
  BY <1>1, TakeWalletTook
<1>3. wallet' = wallet - n /\ token' = token
  BY DEF TakeWallet
<1>4. OwnPurse(r)'
  BY <1>2 DEF OwnPurse, TookAfter, KeptAmounts
<1>5. WalletOver(r)' = WalletOver(r) + n
  BY <1>1, <1>2 DEF WalletOver, TookAfter, KeptAmounts
<1>6. wallet' + Positive(WalletOver(r)') >= wallet + Positive(WalletOver(r))
  BY <1>3, <1>5, OverMoves
<1>7. token' + Positive(TokenOver(r)') >= token + Positive(TokenOver(r))
  BY <1>2, <1>3, SameToken DEF TookAfter, KeptAmounts
<1> QED
  BY <1>4, <1>6, <1>7 DEF Honest

\* The token follows: it is charged what is above the estimate, or paid back.
LEMMA TakeTokenHonest ==
    ASSUME IInv, NEW r \in Requests, OwnPurse(r), NEW n \in Int, TakeToken(r, n),
           profile' = profile, KeptAmounts(r), pc'[r] \notin Opening,
           Pending(r)' = Pending(r), n <= 0 \/ TokenHeld(r)
    PROVE  Honest(r)
<1>1. TypeOK /\ took[r].token \in Int /\ sess[r].tokenConsumed \in Nat
      /\ wallet \in Int /\ WalletOver(r) \in Int
  BY DebtAmounts
<1>2. TookAfter(r, took[r].wallet, took[r].sub,
                IF profile[r].playground THEN took[r].token ELSE took[r].token + n)
  BY <1>1, TakeTokenTook
<1>3. wallet' = wallet
  BY DEF TakeToken
<1>4. OwnPurse(r)'
  BY <1>2 DEF OwnPurse, TookAfter, KeptAmounts
<1>5. WalletOver(r)' = WalletOver(r)
  BY <1>2 DEF WalletOver, TookAfter, KeptAmounts
<1>6. wallet' + Positive(WalletOver(r)') >= wallet + Positive(WalletOver(r))
  BY <1>1, <1>3, <1>5, OverGrows
<1>7. /\ TokenOver(r)' \in Int
      /\ n <= 0 \/ TokenOver(r) >= 0 \/ profile[r].playground
      /\ IF profile[r].playground THEN TokenOver(r) <= 0
         ELSE TokenOver(r)' >= TokenOver(r) + n
  BY <1>1, <1>2 DEF TokenOver, TookAfter, KeptAmounts, TokenHeld, OwnPurse
<1>8. token' + Positive(TokenOver(r)') >= token + Positive(TokenOver(r))
  BY <1>7, TokenBack
<1> QED
  BY <1>4, <1>6, <1>8 DEF Honest

LEMMA ReserveFundingHonest ==
    ASSUME IInv, NEW r \in Requests, OwnPurse(r), ReserveFunding(r) PROVE Honest(r)
<1> DEFINE n == want[r]
<1>1. pc[r] = "resFund" /\ profile' = profile /\ want' = want
  BY DEF ReserveFunding
<1>2. /\ TypeOK /\ SessionsOK /\ FundHeld(r) /\ pc \in [Requests -> Labels]
      /\ n \in Nat /\ n \in Int /\ wallet \in Int /\ took[r].wallet \in Int
      /\ sess[r].preConsumed \in Nat /\ sess[r].extraReserved \in Nat
      /\ sess[r].subPre \in Nat /\ Pending(r) = 0
  BY <1>1, DebtAmounts DEF RequestOK, Running, Pending
<1>3. CASE /\ pc' = [pc EXCEPT ![r] = "fail"] /\ sess' = sess
           /\ UNCHANGED <<wallet, token, took>>
  <2>1. pc'[r] = "fail" /\ Pending(r)' = 0 /\ SameSession(r)
    BY <1>2, <1>3 DEF Pending, SameSession, Session
  <2> QED
    BY <1>1, <1>2, <1>3, <2>1, IdleIsHonest DEF Opening
<1>4. ASSUME pc' = [pc EXCEPT ![r] = "resToken"]
      PROVE  pc'[r] \notin Opening /\ Pending(r)' \in Nat
  BY <1>1, <1>2, <1>4 DEF Pending, Opening
<1>5. CASE /\ sess[r].funding = "wallet" /\ wallet >= n /\ TakeWallet(r, n)
           /\ sess' = [sess EXCEPT ![r].consumed = n]
           /\ pc' = [pc EXCEPT ![r] = "resToken"]
  <2>1. TookAfter(r, took[r].wallet + n, took[r].sub, took[r].token)
    BY <1>2, <1>5, TakeWalletTook
  <2>2. KeptAmounts(r)
    BY <1>2, <1>5, ConsumedAlone
  <2>3. wallet' >= 0 /\ token' = token
    BY <1>2, <1>5 DEF TakeWallet
  <2>4. OwnPurse(r)'
    BY <1>1, <1>4, <1>5, <2>1, <2>2 DEF OwnPurse, TookAfter, KeptAmounts
  <2>5. token' + Positive(TokenOver(r)') >= token + Positive(TokenOver(r))
    BY <2>1, <2>2, <2>3, SameToken DEF TookAfter, KeptAmounts
  <2> QED
    BY <2>3, <2>4, <2>5 DEF Honest
<1>6. CASE /\ sess[r].funding = "wallet" /\ ~profile[r].image /\ TakeWallet(r, n)
           /\ sess' = [sess EXCEPT ![r].consumed = @ + n]
           /\ pc' = [pc EXCEPT ![r] = "resToken"]
  <2>1. KeptAmounts(r)
    BY <1>2, <1>6, ConsumedAlone
  <2>2. WalletOver(r) >= 0
    BY <1>2, <1>6 DEF FundHeld, WalletOver
  <2> QED
    BY <1>1, <1>2, <1>4, <1>6, <2>1, <2>2, TakeWalletHonest
<1>7. CASE /\ sess[r].funding = "subscription" /\ TakeSub(r, n)
           /\ sess' = sess /\ pc' = [pc EXCEPT ![r] = "resToken"]
  <2>1. took[r].wallet = 0 /\ sess[r].extraReserved <= sess[r].preConsumed
    BY <1>2, <1>7 DEF OwnPurse, FundHeld
  <2>2. WalletOver(r) <= 0
    BY <2>1, OffWallet
  <2>3. KeptAmounts(r)
    BY <1>7 DEF KeptAmounts
  <2> QED
    BY <1>1, <1>2, <1>4, <1>7, <2>2, <2>3, TakeSubHonest
<1> QED
  BY <1>3, <1>5, <1>6, <1>7 DEF ReserveFunding, Go, Fault

LEMMA ReserveTokenHonest ==
    ASSUME IInv, NEW r \in Requests, OwnPurse(r), ReserveToken(r) PROVE Honest(r)
<1> DEFINE n == want[r]
<1>1. pc[r] = "resToken" /\ profile' = profile /\ want' = want
  BY DEF ReserveToken
<1>2. /\ TypeOK /\ SessionsOK /\ pc \in [Requests -> Labels] /\ sess[r] \in SessionType
      /\ n \in Nat /\ n \in Int /\ wallet \in Int /\ took[r].wallet \in Int
      /\ sess[r].preConsumed \in Nat /\ sess[r].extraReserved \in Nat
      /\ sess[r].tokenConsumed \in Nat /\ Pending(r) = n /\ token \in Int
      /\ WalletOver(r) \in Int /\ took[r].token \in Int
  BY <1>1, DebtAmounts DEF RequestOK, Running, Pending
<1>3. CASE /\ pc' = [pc EXCEPT ![r] = "resUndo"] /\ sess' = sess
           /\ UNCHANGED <<wallet, token, took>>
  <2>1. pc'[r] = "resUndo" /\ Pending(r)' = n /\ SameSession(r)
    BY <1>1, <1>2, <1>3 DEF Pending, SameSession, Session
  <2> QED
    BY <1>1, <1>2, <1>3, <2>1, IdleIsHonest DEF Opening
<1>4. CASE /\ TokenAccepts(r, n) /\ TakeToken(r, n)
           /\ sess' = [sess EXCEPT ![r].preConsumed = @ + n,
                                   ![r].tokenConsumed = @ + n,
                                   ![r].extraReserved = @ + n,
                                   ![r].trusted = @ /\ ~profile[r].image]
           /\ pc' = [pc EXCEPT ![r] = "upstream"]
  <2>1. TookAfter(r, took[r].wallet, took[r].sub,
                  IF profile[r].playground THEN took[r].token ELSE took[r].token + n)
    BY <1>2, <1>4, TakeTokenTook
  <2>2. sess'[r] = [sess[r] EXCEPT !.preConsumed = sess[r].preConsumed + n,
                                   !.tokenConsumed = sess[r].tokenConsumed + n,
                                   !.extraReserved = sess[r].extraReserved + n,
                                   !.trusted = sess[r].trusted /\ ~profile[r].image]
    BY <1>2, <1>4 DEF SessionsOK, SessionType
  <2>3. \A f \in Flagged : sess'[r][f] = sess[r][f]
    BY <1>2, <2>2, SessionFields DEF Flagged
  <2>4. sess'[r].funding = sess[r].funding
    BY <2>3, KeptFlags
  <2>5. pc'[r] = "upstream" /\ Pending(r)' = 0
    BY <1>2, <1>4 DEF Pending
  <2> HIDE DEF n
  <2>6. sess'[r].preConsumed = sess[r].preConsumed + n
    BY <1>2, <2>2 DEF SessionType
  <2>7. sess'[r].tokenConsumed = sess[r].tokenConsumed + n
    BY <1>2, <2>2 DEF SessionType
  <2>8. sess'[r].extraReserved = sess[r].extraReserved + n
    BY <1>2, <2>2 DEF SessionType
  <2>9. OwnPurse(r)'
    BY <1>1, <2>1, <2>4, <2>5 DEF OwnPurse, TookAfter, Opening
  <2>10. WalletOver(r)' = WalletOver(r)
    BY <1>1, <1>2, <2>1, <2>5, <2>6, <2>8 DEF WalletOver, TookAfter
  <2>11. wallet' = wallet
    BY <1>4 DEF TakeToken
  <2>12. wallet' + Positive(WalletOver(r)') >= wallet + Positive(WalletOver(r))
    BY <1>2, <2>10, <2>11, OverGrows
  <2>13. CASE profile[r].playground
    <3>1. token' = token /\ Positive(TokenOver(r)) = 0 /\ Positive(TokenOver(r)') = 0
      BY <1>1, <1>2, <1>4, <2>1, <2>7, <2>13
      DEF TakeToken, TokenOver, Positive, OwnPurse, TookAfter
    <3> QED
      BY <1>2, <2>9, <2>12, <3>1 DEF Honest
  <2>14. CASE ~profile[r].playground
    <3>1. TokenUnlimited \/ token' >= 0
      BY <1>2, <1>4, <2>14 DEF TakeToken, TokenAccepts
    <3> QED
      BY <2>9, <2>12, <3>1 DEF Honest
  <2> QED
    BY <2>13, <2>14
<1> QED
  BY <1>3, <1>4 DEF ReserveToken, Go, Fault

LEMMA ReserveUndoHonest ==
    ASSUME IInv, NEW r \in Requests, OwnPurse(r), ReserveUndo(r) PROVE Honest(r)
<1> DEFINE n == want[r]
<1>1. pc[r] = "resUndo" /\ profile' = profile
  BY DEF ReserveUndo
<1>2. /\ TypeOK /\ SessionsOK /\ FundHeld(r) /\ pc \in [Requests -> Labels]
      /\ n \in Nat /\ -n \in Int /\ -n <= 0 /\ wallet \in Int /\ took[r].wallet \in Int
      /\ sess[r].preConsumed \in Nat /\ sess[r].extraReserved \in Nat
      /\ sess[r].subPre \in Nat /\ Pending(r) = n /\ WalletOver(r) \in Int
  BY <1>1, DebtAmounts DEF RequestOK, Running, Pending
<1>3. pc'[r] = "fail" /\ pc'[r] \notin Opening /\ Pending(r)' = 0
  BY <1>2 DEF ReserveUndo, Go, Pending, Opening
<1> HIDE DEF n
<1>4. CASE Fault /\ sess' = sess
  <2>1. OwnPurse(r)'
    BY <1>1, <1>3, <1>4 DEF OwnPurse, Fault
  <2>2. WalletOver(r)' \in Int /\ WalletOver(r)' >= WalletOver(r)
    BY <1>1, <1>2, <1>3, <1>4 DEF WalletOver, Fault
  <2>3. wallet' + Positive(WalletOver(r)') >= wallet + Positive(WalletOver(r))
    BY <1>2, <1>4, <2>2, OverGrows DEF Fault
  <2>4. token' + Positive(TokenOver(r)') >= token + Positive(TokenOver(r))
    BY <1>4, SameToken DEF Fault
  <2> QED
    BY <2>1, <2>3, <2>4 DEF Honest
<1>5. CASE /\ sess[r].funding = "wallet" /\ TakeWallet(r, -n)
           /\ sess' = [sess EXCEPT ![r].consumed = @ - n]
  <2>1. KeptAmounts(r)
    BY <1>2, <1>5, ConsumedAlone
  <2>2. CASE ~profile[r].image
    BY <1>1, <1>2, <1>3, <1>5, <2>1, <2>2, TakeWalletHonest
  <2>3. CASE profile[r].image
    <3>1. TookAfter(r, took[r].wallet + (-n), took[r].sub, took[r].token)
      BY <1>2, <1>5, TakeWalletTook
    <3>2. OwnPurse(r)'
      BY <1>1, <1>3, <1>5, <2>1, <3>1 DEF OwnPurse, TookAfter, KeptAmounts
    <3>3. WalletOver(r)' = WalletOver(r)
      BY <1>1, <1>2, <1>3, <2>1, <2>3, <3>1 DEF WalletOver, TookAfter, KeptAmounts
    <3>4. wallet' \in Int /\ wallet' >= wallet /\ token' = token
      BY <1>2, <1>5 DEF TakeWallet
    <3>5. wallet' + Positive(WalletOver(r)') >= wallet + Positive(WalletOver(r))
      BY <1>2, <3>3, <3>4, OverGrows
    <3>6. token' + Positive(TokenOver(r)') >= token + Positive(TokenOver(r))
      BY <2>1, <3>1, <3>4, SameToken DEF TookAfter, KeptAmounts
    <3> QED
      BY <3>2, <3>5, <3>6 DEF Honest
  <2> QED
    BY <2>2, <2>3
<1>6. CASE sess[r].funding = "subscription" /\ TakeSub(r, -n) /\ sess' = sess
  <2>1. took[r].wallet = 0 /\ sess[r].extraReserved <= sess[r].preConsumed
    BY <1>2, <1>6 DEF OwnPurse, FundHeld
  <2>2. WalletOver(r) <= 0
    BY <2>1, OffWallet
  <2>3. KeptAmounts(r)
    BY <1>6 DEF KeptAmounts
  <2> QED
    BY <1>1, <1>2, <1>3, <1>6, <2>2, <2>3, TakeSubHonest
<1> QED
  BY <1>4, <1>5, <1>6 DEF ReserveUndo, n

LEMMA RefundHonest ==
    ASSUME IInv, NEW r \in Requests, OwnPurse(r),
           RefundFunding(r) \/ RefundExtra(r) \/ RefundToken(r)
    PROVE  Honest(r)
<1>1. /\ pc[r] \in {"refFund", "refExtra", "refToken"} /\ profile' = profile
      /\ sess' = sess
  BY DEF RefundFunding, RefundExtra, RefundToken
<1>2. /\ TypeOK /\ pc \in [Requests -> Labels] /\ sess[r].funding \in Sources
      /\ sess[r].consumed \in Int /\ sess[r].subPre \in Nat
      /\ sess[r].extraReserved \in Nat /\ sess[r].tokenConsumed \in Nat
  BY DebtAmounts
<1>3. pc'[r] \in {"refExtra", "refToken", "closed"} /\ pc'[r] \notin Opening
  BY <1>2 DEF RefundFunding, RefundExtra, RefundToken, Go, Opening
<1>4. Pending(r) = 0 /\ Pending(r)' = 0 /\ KeptAmounts(r) /\ SameSession(r)
  BY <1>1, <1>3 DEF Pending, KeptAmounts, SameSession, Session
<1>5. CASE Fault
  BY <1>1, <1>3, <1>4, <1>5, IdleIsHonest DEF Fault, Opening
<1>6. CASE sess[r].funding = "wallet" /\ TakeWallet(r, -WalletRefund(r))
  <2>1. -WalletRefund(r) \in Int /\ -WalletRefund(r) <= 0
    BY <1>2 DEF WalletRefund
  <2> QED
    BY <1>1, <1>3, <1>4, <1>6, <2>1, TakeWalletHonest
<1>7. CASE TakeSub(r, -sess[r].subPre) \/ TakeSub(r, -sess[r].extraReserved)
  <2>1. -sess[r].subPre \in Int /\ -sess[r].extraReserved \in Int
    BY <1>2
  <2> QED
    BY <1>1, <1>3, <1>4, <1>7, <2>1, TakeSubHonest
<1>8. CASE TakeToken(r, -sess[r].tokenConsumed)
  <2>1. -sess[r].tokenConsumed \in Int /\ -sess[r].tokenConsumed <= 0
    BY <1>2
  <2> QED
    BY <1>1, <1>3, <1>4, <1>8, <2>1, TakeTokenHonest
<1> QED
  BY <1>5, <1>6, <1>7, <1>8 DEF RefundFunding, RefundExtra, RefundToken

LEMMA SettleHonest ==
    ASSUME IInv, NEW r \in Requests, OwnPurse(r), SettleFunding(r) \/ SettleToken(r)
    PROVE  Honest(r)
<1> DEFINE delta == want[r] - sess[r].preConsumed
<1>1. pc[r] \in {"setFund", "setToken"} /\ profile' = profile
  BY DEF SettleFunding, SettleToken
<1>2. /\ TypeOK /\ SessionsOK /\ pc \in [Requests -> Labels] /\ RequestOK(r)
      /\ want[r] \in Nat /\ took[r].wallet \in Int
      /\ sess[r].preConsumed \in Nat /\ sess[r].extraReserved \in Nat
  BY DebtAmounts
<1>3. delta \in Int
  BY <1>2
<1>4. pc'[r] \in {"setToken", "closed"} /\ pc'[r] \notin Opening
  BY <1>2 DEF SettleFunding, SettleToken, Go, Opening
<1>5. \/ sess' = sess
      \/ sess' = [sess EXCEPT ![r].settled = TRUE]
      \/ sess' = [sess EXCEPT ![r].fundingSettled = TRUE]
  BY DEF SettleFunding, SettleToken
<1>6. SameSession(r)
  BY <1>2, <1>5, OtherFieldAfter
<1>7. Pending(r) = 0 /\ Pending(r)' = 0 /\ KeptAmounts(r)
  BY <1>1, <1>4, <1>6 DEF Pending, KeptAmounts, SameSession, Session
<1> HIDE DEF delta
<1>8. CASE UNCHANGED <<wallet, token, took>>
  BY <1>1, <1>4, <1>6, <1>7, <1>8, IdleIsHonest
  DEF Opening, SameSession, Session
<1>9. CASE pc[r] = "setFund" /\ sess[r].funding = "wallet" /\ TakeWallet(r, delta)
  <2>1. WalletOver(r) >= 0
    BY <1>2, <1>7, <1>9 DEF RequestOK, Running, FundHeld, WalletOver
  <2> QED
    BY <1>1, <1>3, <1>4, <1>7, <1>9, <2>1, TakeWalletHonest
<1>10. CASE TakeSub(r, delta)
  BY <1>1, <1>3, <1>4, <1>7, <1>10, TakeSubHonest
<1>11. CASE pc[r] = "setToken" /\ TakeToken(r, delta)
  <2>1. TokenHeld(r)
    BY <1>2, <1>11 DEF RequestOK
  <2> QED
    BY <1>1, <1>3, <1>4, <1>7, <1>11, <2>1, TakeTokenHonest
<1> QED
  BY <1>8, <1>9, <1>10, <1>11 DEF SettleFunding, SettleToken, Fault, delta

LEMMA StepHonest ==
    ASSUME IInv, NEW r \in Requests, OwnPurse(r), Step(r) PROVE Honest(r)
  BY StartHonest, MoveHonest, PreTokenHonest, PreFundHonest, PreUndoHonest,
     ReserveFundingHonest, ReserveTokenHonest, ReserveUndoHonest, RefundHonest,
     SettleHonest DEF Step

LEMMA OversAreNumbers ==
    IInv => WalletOvers \in [Requests -> Int] /\ TokenOvers \in [Requests -> Int]
  BY DebtAmounts DEF WalletOvers, TokenOvers

\* A counter that is short of no more than the requests owe it stays so.
LEMMA StaysCovered ==
    ASSUME NEW u \in [Requests -> Int], NEW v \in [Requests -> Int], NEW r \in Requests,
           \A q \in Requests \ {r} : v[q] = u[q], Summable(u),
           NEW c \in Int, NEW d \in Int, c + Total(u) >= 0,
           d >= 0 \/ d + Positive(v[r]) >= c + Positive(u[r])
    PROVE  Summable(v) /\ d + Total(v) >= 0
<1>1. /\ Summable(v) /\ Total(u) \in Nat /\ Total(v) \in Nat
      /\ Total(v) = Total(u) + Positive(v[r]) - Positive(u[r])
  BY OneChanges
<1>2. Positive(u[r]) \in Nat /\ Positive(v[r]) \in Nat
  BY DEF Positive
<1> QED
  BY <1>1, <1>2

LEMMA StepDInv ==
    ASSUME IInv, IInv', DInv, NEW r \in Requests, Step(r) PROVE DInv'
<1>1. Honest(r)
  BY StepHonest DEF DInv
<1>2. Others(r)
  BY StepOthers DEF IInv
<1>3. \A q \in Requests : OwnPurse(q)'
  BY <1>1, <1>2 DEF DInv, Honest, Others, OwnPurse
<1>4. /\ WalletOvers \in [Requests -> Int] /\ TokenOvers \in [Requests -> Int]
      /\ wallet \in Int /\ token \in Int /\ wallet' \in Int /\ token' \in Int
  BY OversAreNumbers DEF IInv, TypeOK, CountersOK
<1>5. (WalletOvers \in [Requests -> Int] /\ TokenOvers \in [Requests -> Int])'
  BY OversAreNumbers, PTL
<1>6. /\ \A q \in Requests \ {r} : WalletOvers'[q] = WalletOvers[q]
      /\ \A q \in Requests \ {r} : TokenOvers'[q] = TokenOvers[q]
  BY <1>2 DEF Others, WalletOvers, TokenOvers, WalletOver, TokenOver, Pending
<1>7. /\ WalletOvers[r] = WalletOver(r) /\ WalletOvers'[r] = WalletOver(r)'
      /\ TokenOvers[r] = TokenOver(r) /\ TokenOvers'[r] = TokenOver(r)'
  BY DEF WalletOvers, TokenOvers
<1>8. Summable(WalletOvers') /\ wallet' + Total(WalletOvers') >= 0
  BY <1>1, <1>4, <1>5, <1>6, <1>7, StaysCovered DEF DInv, Honest
<1>9. Summable(TokenOvers')
  BY <1>4, <1>5, <1>6, OneChanges DEF DInv
<1>10. TokenUnlimited \/ token' + Total(TokenOvers') >= 0
  BY <1>1, <1>4, <1>5, <1>6, <1>7, StaysCovered DEF DInv, Honest
<1> QED
  BY <1>3, <1>8, <1>9, <1>10 DEF DInv

\* A session that has deducted nothing is over by nothing.
LEMMA NothingOver ==
    ASSUME NEW r \in Requests, took[r].wallet = 0, Nothing(sess[r]), Pending(r) = 0
    PROVE  WalletOver(r) = 0
  BY DEF WalletOver, Nothing

LEMMA InitDInv ==
    ASSUME WalletInit >= 0, TokenUnlimited \/ TokenInit >= 0, Init PROVE DInv
<1>1. IInv
  BY InitIInv
<1>2. \A r \in Requests : WalletOver(r) = 0 /\ TokenOver(r) = 0 /\ OwnPurse(r)
  <2> SUFFICES ASSUME NEW r \in Requests
               PROVE  WalletOver(r) = 0 /\ TokenOver(r) = 0 /\ OwnPurse(r)
    OBVIOUS
  <2>1. /\ sess[r] = FreshSession("none", FALSE) /\ pc[r] = "start"
        /\ took[r] = [wallet |-> 0, token |-> 0, sub |-> 0]
    BY DEF Init, NoSession
  <2>2. /\ Nothing(sess[r]) /\ sess[r].tokenConsumed = 0 /\ Pending(r) = 0
        /\ took[r].wallet = 0 /\ took[r].token = 0
    BY <2>1 DEF FreshSession, Nothing, Pending
  <2> QED
    BY <2>2, NothingOver DEF TokenOver, OwnPurse
<1>3. /\ WalletOvers \in [Requests -> Int] /\ \A r \in Requests : WalletOvers[r] <= 0
      /\ TokenOvers \in [Requests -> Int] /\ \A r \in Requests : TokenOvers[r] <= 0
  BY <1>2 DEF WalletOvers, TokenOvers
<1>4. /\ Summable(WalletOvers) /\ Total(WalletOvers) = 0
      /\ Summable(TokenOvers) /\ Total(TokenOvers) = 0
  BY <1>3, NothingToSum
<1>5. wallet \in Int /\ token \in Int /\ wallet >= 0 /\ (TokenUnlimited \/ token >= 0)
  BY ConstantsAssumption DEF Init
<1> QED
  BY <1>2, <1>4, <1>5 DEF DInv

\* Debt that is short of no more than the requests took over is owed by one of them.
LEMMA DebtHasOwner == ASSUME IInv, DInv PROVE DebtIsExplained
<1>1. /\ WalletOvers \in [Requests -> Int] /\ TokenOvers \in [Requests -> Int]
      /\ wallet \in Int /\ token \in Int
      /\ Total(WalletOvers) \in Nat /\ Total(TokenOvers) \in Nat
  BY OversAreNumbers, FS_CardinalityType
  DEF IInv, TypeOK, CountersOK, DInv, Total, Summable
<1>2. ASSUME wallet < 0 PROVE \E r \in Requests : Unchecked(r) > 0
  <2>1. PICK r \in Requests : WalletOvers[r] > 0
    BY <1>1, <1>2, TotalIsOfSome DEF DInv
  <2>2. WalletOver(r) > 0
    BY <2>1 DEF WalletOvers
  <2>3. Unchecked(r) >= WalletOver(r) /\ Unchecked(r) \in Int /\ WalletOver(r) \in Int
    BY DebtAmounts DEF Unchecked, WalletOver
  <2> QED
    BY <2>2, <2>3
<1>3. ASSUME token < 0, ~TokenUnlimited
      PROVE  \E r \in Requests : took[r].token > sess[r].tokenConsumed
  <2>1. PICK r \in Requests : TokenOvers[r] > 0
    BY <1>1, <1>3, TotalIsOfSome DEF DInv
  <2>2. TokenOver(r) > 0
    BY <2>1 DEF TokenOvers
  <2> QED
    BY <2>2, DebtAmounts DEF TokenOver
<1> QED
  BY <1>2, <1>3 DEF DebtIsExplained

\* Whatever the interleaving of the requests' checks and deductions, a user or a
\* limited token that started out of debt is in debt only while some request has
\* taken more than it checked for: Settle above the estimate, or a reservation of
\* a request that is not an image request (reserveFunding).
THEOREM DebtIsOwed ==
    ASSUME WalletInit >= 0, TokenUnlimited \/ TokenInit >= 0
    PROVE  Spec => []DebtIsExplained
<1>1. Init => DInv
  BY InitDInv
<1>2. IInv /\ IInv' /\ DInv /\ [Next]_vars => DInv'
  <2> SUFFICES ASSUME IInv, IInv', DInv, [Next]_vars PROVE DInv'
    OBVIOUS
  <2>1. ASSUME NEW r \in Requests, Step(r) PROVE DInv'
    BY <2>1, StepDInv
  <2>2. CASE Done \/ UNCHANGED vars
    BY <2>2 DEF Done, vars, DInv, OwnPurse, WalletOvers, TokenOvers, WalletOver,
                TokenOver, Pending
  <2> QED
    BY <2>1, <2>2 DEF Next
<1>3. IInv /\ DInv => DebtIsExplained
  BY DebtHasOwner
<1> QED
  BY <1>1, <1>2, <1>3, AlwaysIInv, PTL DEF Spec

=============================================================================
