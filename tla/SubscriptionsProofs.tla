------------------------- MODULE SubscriptionsProofs -------------------------
(***************************************************************************)
(* Proofs about the usage of subscriptions (Subscription) and about how    *)
(* they are got and lost (SubscriptionOrders), for any requests, orders,   *)
(* plans, amounts, periods and budgets of faults.                          *)
(***************************************************************************)
EXTENDS MCSubscriptions, FiniteSetTheorems, WellFoundedInduction, TLAPS

-----------------------------------------------------------------------------
(* Greatest elements.                                                      *)

LEMMA GreatestExists ==
    ASSUME NEW D, D \subseteq Int, D # {}, NEW t \in Int, \A b \in D : b <= t
    PROVE  \E b \in D : \A c \in D : c <= b
<1> DEFINE T == {t - b : b \in D}
<1>1. T \subseteq Nat /\ T # {}
  <2>1. ASSUME NEW b \in D PROVE t - b \in Nat
    OBVIOUS
  <2> QED
    BY <2>1
<1>2. PICK x \in T : \A y \in T : ~(<<y, x>> \in OpToRel(<, Nat))
  BY <1>1, NatLessThanWellFounded, WFMin
<1>3. \A y \in T : x <= y
  <2> SUFFICES ASSUME NEW y \in T, y < x PROVE FALSE
    BY <1>1
  <2>1. <<y, x>> \in Nat \X Nat /\ <<y, x>>[1] < <<y, x>>[2]
    BY <1>1
  <2> QED
    BY <2>1, <1>2 DEF OpToRel
<1>4. PICK b \in D : x = t - b
  OBVIOUS
<1>5. ASSUME NEW c \in D PROVE c <= b
  <2>1. t - c \in T
    OBVIOUS
  <2> QED
    BY <2>1, <1>3, <1>4
<1> QED
  BY <1>5

-----------------------------------------------------------------------------
(* Usage: settings and types.                                              *)

LEMMA SettingFacts ==
    ASSUME setting \in Settings
    PROVE  /\ Total \in Nat /\ Duration \in Nat /\ Periods \subseteq PeriodType
           /\ PlanUpdates \in Nat /\ AdminResets \in Nat /\ MayAdvance \in BOOLEAN
           /\ Lag \in Nat /\ MaxTime \in Nat /\ BatchSize \in Nat
           /\ FaultBudget \in Nat /\ LostAcks \in Nat /\ MarkFaults \in Nat
  BY SettingsAssumption
  DEF Total, Duration, Periods, PlanUpdates, AdminResets, MayAdvance, Lag, MaxTime,
      BatchSize, FaultBudget, LostAcks, MarkFaults

Row == [status : {"none", "active", "expired", "cancelled", "deleted"},
        used : Nat, start : Nat, end : Nat, last : Nat, next : Int]

Budget == [fault : Int, ack : Int, mark : Int, plan : Int, reset : Int]

History == [current : [Requests -> Int], charged : [Subs -> Int],
            carried : [Subs -> Int], resets : [Subs -> Int]]

UsageTyped ==
    /\ setting \in Settings
    /\ now \in Nat
    /\ period \in PeriodType
    /\ subs \in [Subs -> Row]
    /\ rec \in [Requests -> RecType]
    /\ pc \in [Requests -> Labels]
    /\ extra \in [Requests -> Nat]
    /\ pass \in PassType /\ pass.t <= now
    /\ budget \in Budget
    /\ budget.plan <= PlanUpdates /\ budget.reset <= AdminResets
    /\ budget.mark <= MarkFaults
    /\ hist \in History
    /\ given \in [Requests -> Nat]

\* A request that holds something holds it on a subscription.
Holder(r) ==
    pc[r] \in {"holding", "refund", "mark", "extra"}
    => rec[r].sub \in Subs /\ subs[rec[r].sub].status # "none"

\* What refunds gave a request back: a record that may still be refunded was
\* refunded once for every mark that failed, at most.
Failed == MarkFaults - budget.mark

Owed(r) ==
    /\ given[r] <= rec[r].amount * (1 + Failed)
    /\ pc[r] = "idle" => given[r] = 0
    /\ rec[r].status = "consumed" /\ pc[r] \notin {"mark", "done"}
       => given[r] <= rec[r].amount * Failed

-----------------------------------------------------------------------------
(* Reset times.                                                            *)

LEMMA NextResetIsInt ==
    ASSUME period \in PeriodType, NEW base \in Nat, NEW end \in Nat
    PROVE  CalcNextResetTime(base, end) \in Int
<1>1. period.len \in Nat /\ period.aligned \in BOOLEAN
  BY DEF PeriodType
<1>2. CASE period.len = 0
  BY <1>2 DEF CalcNextResetTime
<1>3. CASE period.len # 0
  <2>1. PICK l \in Nat \ {0} : l = period.len
    BY <1>1, <1>3
  <2>2. base \div l \in Int
    BY <2>1
  <2>3. (base \div l + 1) * l \in Int /\ base + l \in Int
    BY <2>1, <2>2
  <2> QED
    BY <2>1, <2>3 DEF CalcNextResetTime
<1> QED
  BY <1>2, <1>3

\* Where the schedule of a row starts from.
Base(u) == IF u.last <= 0 THEN u.start ELSE u.last

LEMMA LatestDue ==
    ASSUME NEW u \in Row, NEW t \in Nat, Resets(u, t)
    PROVE  LET b == CHOOSE b \in Due(u, t) : \A c \in Due(u, t) : c <= b
           IN  b \in Due(u, t)
<1>1. Base(u) \in Nat
  BY DEF Base, Row
<1>2. Due(u, t) \subseteq (Base(u) + 1)..t
  BY DEF Due, DueResets, Base
<1>3. Due(u, t) # {} /\ Due(u, t) \subseteq Int /\ \A b \in Due(u, t) : b <= t
  BY <1>1, <1>2 DEF Resets
<1>4. \E b \in Due(u, t) : \A c \in Due(u, t) : c <= b
  BY <1>3, GreatestExists
<1> QED
  BY <1>4

\* What maybeResetUserSubscriptionWithPlanTx does to a row.
LEMMA ResetEffect ==
    ASSUME period \in PeriodType, NEW u \in Row, NEW t \in Nat
    PROVE  /\ MaybeReset(u, t) \in Row
           /\ MaybeReset(u, t).status = u.status
           /\ MaybeReset(u, t).start = u.start
           /\ MaybeReset(u, t).end = u.end
           /\ Resets(u, t) => /\ MaybeReset(u, t).used = 0
                              /\ MaybeReset(u, t).last \in Due(u, t)
           /\ ~Resets(u, t) => /\ MaybeReset(u, t).used = u.used
                               /\ MaybeReset(u, t).last \in {u.last, Base(u)}
<1>1. Base(u) \in Nat /\ u.end \in Nat
  BY DEF Base, Row
<1>2. CASE Resets(u, t)
  <2>1. PICK b : /\ b = CHOOSE e \in Due(u, t) : \A c \in Due(u, t) : c <= e
                 /\ b \in Due(u, t)
    BY <1>2, LatestDue
  <2>2. b \in Nat
    BY <2>1, <1>1 DEF Due, DueResets, Base
  <2>3. PICK n \in Int : n = CalcNextResetTime(b, u.end)
    BY <2>2, <1>1, NextResetIsInt
  <2>4. PICK w : w = MaybeReset(u, t)
    OBVIOUS
  <2>5. w = [u EXCEPT !.used = 0, !.last = b, !.next = n]
    BY <1>2, <2>1, <2>3, <2>4 DEF MaybeReset, NewPeriod
  <2>6. w \in Row /\ w.used = 0 /\ w.last = b
    BY <2>2, <2>5 DEF Row
  <2>7. w.status = u.status /\ w.start = u.start /\ w.end = u.end
    BY <2>5 DEF Row
  <2> QED
    BY <1>2, <2>1, <2>4, <2>6, <2>7
<1>3. CASE ~Resets(u, t)
  <2>1. PICK n : n = CalcNextResetTime(Base(u), u.end) /\ n \in Int
    BY <1>1, NextResetIsInt
  <2>2. MaybeReset(u, t) = u \/ MaybeReset(u, t) = [u EXCEPT !.next = n, !.last = Base(u)]
    BY <1>3, <2>1 DEF MaybeReset, Base
  <2> QED
    BY <1>1, <1>3, <2>1, <2>2 DEF Row
<1> QED
  BY <1>2, <1>3

-----------------------------------------------------------------------------
(* The history.                                                            *)

LEMMA ForgetFacts ==
    ASSUME NEW h \in History, NEW S
    PROVE  LET g == ForgetPeriod(h, S)
           IN  /\ g \in History
               /\ \A s \in Subs : s \in S => /\ g.charged[s] = 0 /\ g.carried[s] = 0
                                             /\ g.resets[s] = h.resets[s] + 1
               /\ \A s \in Subs : s \notin S => /\ g.charged[s] = h.charged[s]
                                                /\ g.carried[s] = h.carried[s]
                                                /\ g.resets[s] = h.resets[s]
<1>1. PICK g : g = ForgetPeriod(h, S)
  OBVIOUS
<1>2. g.current = [r \in Requests |-> IF rec[r].sub \in S THEN 0 ELSE h.current[r]]
  BY <1>1 DEF ForgetPeriod, History
<1>3. g.charged = [s \in Subs |-> IF s \in S THEN 0 ELSE h.charged[s]]
  BY <1>1 DEF ForgetPeriod, History
<1>4. g.carried = [s \in Subs |-> IF s \in S THEN 0 ELSE h.carried[s]]
  BY <1>1 DEF ForgetPeriod, History
<1>5. g.resets = [s \in Subs |-> IF s \in S THEN h.resets[s] + 1 ELSE h.resets[s]]
  BY <1>1 DEF ForgetPeriod, History
<1>6. /\ h.current \in [Requests -> Int] /\ h.charged \in [Subs -> Int]
      /\ h.carried \in [Subs -> Int] /\ h.resets \in [Subs -> Int]
  BY DEF History
<1>7. /\ g.current \in [Requests -> Int] /\ g.charged \in [Subs -> Int]
      /\ g.carried \in [Subs -> Int] /\ g.resets \in [Subs -> Int]
  BY <1>2, <1>3, <1>4, <1>5, <1>6
<1>8. g \in History
  BY <1>1, <1>7 DEF ForgetPeriod, History
<1> QED
  BY <1>1, <1>3, <1>4, <1>5, <1>6, <1>8

LEMMA TookFacts ==
    ASSUME NEW h \in History, NEW r \in Requests, NEW s \in Subs, NEW n \in Int
    PROVE  LET g == Took(h, r, s, n)
           IN  /\ g \in History
               /\ g.charged[s] = h.charged[s] + n /\ g.carried[s] = h.carried[s]
               /\ g.resets = h.resets
               /\ \A u \in Subs : u # s => /\ g.charged[u] = h.charged[u]
                                           /\ g.carried[u] = h.carried[u]
<1>1. PICK g : g = Took(h, r, s, n)
  OBVIOUS
<1>2. /\ h.current \in [Requests -> Int] /\ h.charged \in [Subs -> Int]
      /\ h.carried \in [Subs -> Int] /\ h.resets \in [Subs -> Int]
  BY DEF History
<1>3. /\ g.charged = [h.charged EXCEPT ![s] = @ + n]
      /\ g.current = [h.current EXCEPT ![r] = @ + n]
      /\ g.carried = h.carried /\ g.resets = h.resets
  BY <1>1 DEF Took, History
<1>4. g.charged \in [Subs -> Int] /\ g.current \in [Requests -> Int]
  BY <1>2, <1>3
<1>5. g \in History
  BY <1>1, <1>2, <1>3, <1>4 DEF Took, History
<1> QED
  BY <1>1, <1>2, <1>3, <1>5

LEMMA GaveFacts ==
    ASSUME NEW h \in History, NEW r \in Requests, NEW s \in Subs, NEW n \in Int
    PROVE  LET g == Gave(h, r, s, n)
           IN  /\ g \in History
               /\ g.charged[s] - g.carried[s] = h.charged[s] - h.carried[s] - n
               /\ g.resets = h.resets
               /\ \A u \in Subs : u # s => /\ g.charged[u] = h.charged[u]
                                           /\ g.carried[u] = h.carried[u]
<1>1. PICK g : g = Gave(h, r, s, n)
  OBVIOUS
<1>2. /\ h.current \in [Requests -> Int] /\ h.charged \in [Subs -> Int]
      /\ h.carried \in [Subs -> Int] /\ h.resets \in [Subs -> Int]
  BY DEF History
<1>3. PICK m \in Int : m = IF n <= h.current[r] THEN n ELSE h.current[r]
  BY <1>2
<1>4. /\ g.charged = [h.charged EXCEPT ![s] = @ - m]
      /\ g.current = [h.current EXCEPT ![r] = @ - m]
      /\ g.carried = [h.carried EXCEPT ![s] = @ + (n - m)] /\ g.resets = h.resets
  BY <1>1, <1>3 DEF Gave, History
<1>5. /\ g.charged \in [Subs -> Int] /\ g.current \in [Requests -> Int]
      /\ g.carried \in [Subs -> Int]
  BY <1>2, <1>3, <1>4
<1>6. g \in History
  BY <1>1, <1>2, <1>4, <1>5 DEF Gave, History
<1>7. g.charged[s] - g.carried[s] = h.charged[s] - h.carried[s] - n
  BY <1>2, <1>3, <1>4
<1> QED
  BY <1>1, <1>2, <1>4, <1>6, <1>7

-----------------------------------------------------------------------------
(* What a step does to a subscription.                                     *)

\* It has the same beginning, and exists if it did.
Lasts(s) ==
    /\ subs'[s].start = subs[s].start
    /\ subs'[s].status = "none" <=> subs[s].status = "none"

\* The period goes on: the usage falls no faster than what counts of it.
GoesOn(s) ==
    /\ Lasts(s)
    /\ subs'[s].last \in {subs[s].last, Base(subs[s])}
    /\ hist'.resets[s] = hist.resets[s]
    /\ \/ /\ subs'[s].used = subs[s].used
          /\ hist'.charged[s] = hist.charged[s]
          /\ hist'.carried[s] = hist.carried[s]
       \/ /\ subs[s].status # "none"
          /\ Total = 0 \/ subs'[s].used <= Total
          /\ subs'[s].used - subs[s].used
               >= (hist'.charged[s] - hist'.carried[s])
                    - (hist.charged[s] - hist.carried[s])

\* A new period begins, on schedule or because an administrator says so.
Restarts(s) ==
    /\ Lasts(s)
    /\ subs[s].status # "none"
    /\ subs'[s].used = hist'.charged[s] /\ hist'.carried[s] = 0
    /\ Total = 0 \/ subs'[s].used <= Total
    /\ \/ /\ hist'.resets[s] = hist.resets[s] + 1
          /\ \E t \in 1..now : subs'[s].last \in Due(subs[s], t)
       \/ /\ hist'.resets[s] = hist.resets[s]
          /\ AdminResets > 0
          /\ subs'[s].last = subs[s].last \/ MayAdvance

\* The subscription is made.
Begins(s) ==
    /\ subs[s].status = "none"
    /\ subs'[s].status # "none"
    /\ subs'[s].used = 0
    /\ subs'[s].start \in 1..now
    /\ subs'[s].last \in {0, subs'[s].start}
    /\ hist' = hist

RowStep(s) == GoesOn(s) \/ Restarts(s) \/ Begins(s)

RowsMove ==
    /\ subs' \in [Subs -> Row]
    /\ hist' \in History
    /\ \A s \in Subs : RowStep(s)

LEMMA DeltaMoves ==
    ASSUME UsageTyped, NEW r \in Requests, NEW d \in Int,
           rec[r].sub \in Subs, subs[rec[r].sub].status # "none",
           DeltaAccepted(rec[r].sub, d), ApplyDelta(r, d)
    PROVE  RowsMove
<1>1. PICK s \in Subs : s = rec[r].sub
  OBVIOUS
<1>2. /\ subs \in [Subs -> Row] /\ hist \in History /\ subs[s] \in Row /\ subs[s].used \in Nat
      /\ subs[s].last \in Nat /\ subs[s].start \in Nat
  BY <1>1 DEF UsageTyped, Row
<1>3. PICK w \in Nat : w = NewUsed(subs[s].used, d)
  BY <1>2 DEF NewUsed
<1>4. w - subs[s].used >= d /\ (Total = 0 \/ w <= Total)
  BY <1>1, <1>2, <1>3 DEF NewUsed, DeltaAccepted
<1>5. subs' = [subs EXCEPT ![s].used = w]
  BY <1>1, <1>2, <1>3 DEF ApplyDelta
<1>6. /\ subs' \in [Subs -> Row]
      /\ subs'[s].used = w /\ subs'[s].last = subs[s].last
      /\ subs'[s].start = subs[s].start /\ subs'[s].status = subs[s].status
      /\ \A u \in Subs : u # s => subs'[u] = subs[u]
  BY <1>2, <1>5 DEF Row
<1>7. /\ hist' \in History /\ hist'.resets = hist.resets
      /\ (hist'.charged[s] - hist'.carried[s]) - (hist.charged[s] - hist.carried[s]) = d
      /\ \A u \in Subs : u # s => /\ hist'.charged[u] = hist.charged[u]
                                  /\ hist'.carried[u] = hist.carried[u]
  <2>1. hist.charged[s] \in Int /\ hist.carried[s] \in Int
    BY <1>2 DEF History
  <2> PICK h \in History : h = hist
    BY <1>2
  <2>2. CASE d > 0
    <3>1. hist' = Took(h, r, s, d)
      BY <1>1, <2>2 DEF ApplyDelta
    <3>2. /\ hist' \in History /\ hist'.resets = hist.resets
          /\ hist'.charged[s] = hist.charged[s] + d /\ hist'.carried[s] = hist.carried[s]
          /\ \A u \in Subs : u # s => /\ hist'.charged[u] = hist.charged[u]
                                      /\ hist'.carried[u] = hist.carried[u]
      BY <3>1, TookFacts
    <3> QED
      BY <2>1, <3>2
  <2>3. CASE ~(d > 0)
    <3>1. PICK n \in Int : n = 0 - d /\ hist' = Gave(h, r, s, n)
      BY <1>1, <2>3 DEF ApplyDelta
    <3>2. /\ hist' \in History /\ hist'.resets = hist.resets
          /\ hist'.charged[s] - hist'.carried[s] = hist.charged[s] - hist.carried[s] - n
          /\ \A u \in Subs : u # s => /\ hist'.charged[u] = hist.charged[u]
                                      /\ hist'.carried[u] = hist.carried[u]
      BY <3>1, GaveFacts
    <3>3. hist'.charged[s] \in Int /\ hist'.carried[s] \in Int
      BY <3>2 DEF History
    <3> QED
      BY <2>1, <3>1, <3>2, <3>3
  <2> QED
    BY <2>2, <2>3
<1>8. GoesOn(s)
  BY <1>1, <1>2, <1>4, <1>6, <1>7 DEF GoesOn, Lasts
<1>9. ASSUME NEW u \in Subs, u # s PROVE GoesOn(u)
  BY <1>6, <1>7, <1>9 DEF GoesOn, Lasts
<1> QED
  BY <1>6, <1>7, <1>8, <1>9 DEF RowsMove, RowStep

LEMMA UntouchedMoves ==
    ASSUME UsageTyped, UNCHANGED <<subs, hist>> PROVE RowsMove
<1>1. subs' \in [Subs -> Row] /\ hist' \in History
  BY DEF UsageTyped
<1>2. ASSUME NEW s \in Subs PROVE GoesOn(s)
  BY DEF GoesOn, Lasts
<1> QED
  BY <1>1, <1>2 DEF RowsMove, RowStep

\* Rows that are ended, in one way or another.
LEMMA EndedMoves ==
    ASSUME UsageTyped, hist' = hist, subs' \in [Subs -> Row],
           \A s \in Subs : /\ subs'[s].used = subs[s].used
                           /\ subs'[s].start = subs[s].start
                           /\ subs'[s].last = subs[s].last
                           /\ subs'[s].status = "none" <=> subs[s].status = "none"
    PROVE  RowsMove
<1>1. hist' \in History
  BY DEF UsageTyped
<1>2. ASSUME NEW s \in Subs PROVE GoesOn(s)
  BY DEF GoesOn, Lasts
<1> QED
  BY <1>1, <1>2 DEF RowsMove, RowStep

LEMMA CreateMoves ==
    ASSUME UsageTyped, NEW s \in Subs, NEW t, Create(s, t) PROVE RowsMove
<1>1. t \in Nat /\ t \in 1..now /\ t + Duration \in Nat /\ now \in Nat /\ 0 \in Nat
  BY SettingFacts DEF UsageTyped, Create, ReadClock
<1>2. PICK n \in Int : n = CalcNextResetTime(t, t + Duration)
  BY <1>1, NextResetIsInt DEF UsageTyped
<1>3. PICK w : w = [status |-> "active", used |-> 0, start |-> t, end |-> t + Duration,
                    last |-> IF n > 0 THEN t ELSE 0, next |-> n]
  OBVIOUS
<1>4. w \in Row
  BY <1>1, <1>2, <1>3 DEF Row
<1>5. subs \in [Subs -> Row] /\ hist \in History
  BY DEF UsageTyped
<1>6. subs' = [subs EXCEPT ![s] = w] /\ hist' = hist
  BY <1>2, <1>3 DEF Create
<1>7. subs' \in [Subs -> Row] /\ subs'[s] = w /\ \A u \in Subs : u # s => subs'[u] = subs[u]
  BY <1>4, <1>5, <1>6
<1>8. Begins(s)
  BY <1>1, <1>3, <1>6, <1>7 DEF Begins, Create
<1>9. ASSUME NEW u \in Subs, u # s PROVE GoesOn(u)
  BY <1>6, <1>7, <1>9 DEF GoesOn, Lasts
<1> QED
  BY <1>5, <1>6, <1>7, <1>8, <1>9 DEF RowsMove, RowStep

LEMMA AdminEndsMove ==
    ASSUME UsageTyped, NEW s \in Subs,
           AdminDelete(s) \/ \E t \in 1..now : AdminInvalidate(s, t)
    PROVE  RowsMove
<1>1. subs \in [Subs -> Row] /\ hist' = hist /\ now \in Nat /\ subs[s].status # "none"
  BY DEF UsageTyped, AdminDelete, AdminInvalidate
<1>2. PICK w \in Row : /\ subs' = [subs EXCEPT ![s] = w]
                       /\ w.used = subs[s].used /\ w.start = subs[s].start
                       /\ w.last = subs[s].last /\ w.status # "none"
  <2>1. CASE AdminDelete(s)
    <3>1. [subs[s] EXCEPT !.status = "deleted"] \in Row
      BY <1>1 DEF Row
    <3> QED
      BY <1>1, <2>1, <3>1 DEF AdminDelete, Row
  <2>2. ASSUME NEW t \in 1..now, AdminInvalidate(s, t)
        PROVE  \E w \in Row : /\ subs' = [subs EXCEPT ![s] = w]
                              /\ w.used = subs[s].used /\ w.start = subs[s].start
                              /\ w.last = subs[s].last /\ w.status # "none"
    <3>1. PICK w : w = [subs[s] EXCEPT !.status = "cancelled", !.end = t]
      OBVIOUS
    <3>2. t \in Nat
      BY <1>1
    <3>3. /\ w \in Row /\ w.used = subs[s].used /\ w.start = subs[s].start
          /\ w.last = subs[s].last /\ w.status = "cancelled"
      BY <1>1, <3>1, <3>2 DEF Row
    <3>4. subs' = [subs EXCEPT ![s] = w]
      BY <1>1, <2>2, <3>1 DEF AdminInvalidate, Row
    <3> QED
      BY <3>3, <3>4
  <2> QED
    BY <2>1, <2>2
<1>3. subs' \in [Subs -> Row]
  BY <1>1, <1>2
<1> QED
  BY <1>1, <1>2, <1>3, EndedMoves

LEMMA ExpireMoves ==
    ASSUME UsageTyped, NEW t, ExpireDue(t) PROVE RowsMove
<1>1. subs \in [Subs -> Row] /\ hist' = hist
  BY DEF UsageTyped, ExpireDue
<1>2. ASSUME NEW s \in Subs
      PROVE  /\ subs'[s] \in Row
             /\ subs'[s].used = subs[s].used /\ subs'[s].start = subs[s].start
             /\ subs'[s].last = subs[s].last
             /\ subs'[s].status = "none" <=> subs[s].status = "none"
  <2>1. CASE s \in Ended(t)
    <3>1. subs'[s] = [subs[s] EXCEPT !.status = "expired"] /\ subs[s].status = "active"
      BY <2>1 DEF ExpireDue, Ended
    <3> QED
      BY <1>1, <3>1 DEF Row
  <2>2. CASE s \notin Ended(t)
    BY <1>1, <2>2 DEF ExpireDue
  <2> QED
    BY <2>1, <2>2
<1>3. subs' \in [Subs -> Row]
  BY <1>2 DEF ExpireDue
<1> QED
  BY <1>1, <1>2, <1>3, EndedMoves

LEMMA AdminResetMoves ==
    ASSUME UsageTyped, NEW t, NEW advance \in BOOLEAN, AdminReset(t, advance)
    PROVE  RowsMove
<1>1. /\ subs \in [Subs -> Row] /\ t \in Nat /\ period \in PeriodType
      /\ AdminResets > 0 /\ (advance => MayAdvance) /\ Total \in Nat
  BY SettingFacts DEF UsageTyped, AdminReset, ReadClock, Budget
<1>2. PICK S : S = {s \in Subs : Active(s, t)}
  OBVIOUS
<1>3. PICK h \in History : h = hist
  BY DEF UsageTyped
<1>4. PICK g : g = ForgetPeriod(h, S)
  OBVIOUS
<1>5. /\ g \in History
      /\ \A s \in Subs : s \in S => g.charged[s] = 0 /\ g.carried[s] = 0
      /\ \A s \in Subs : s \notin S => /\ g.charged[s] = h.charged[s]
                                       /\ g.carried[s] = h.carried[s]
  BY <1>4, ForgetFacts
<1>6. hist' = [g EXCEPT !.resets = h.resets]
  BY <1>2, <1>3, <1>4 DEF AdminReset
<1>7. /\ hist' \in History /\ hist'.charged = g.charged /\ hist'.carried = g.carried
      /\ hist'.resets = h.resets
  BY <1>3, <1>5, <1>6 DEF History
<1>8. ASSUME NEW s \in S
      PROVE  s \in Subs /\ subs'[s] \in Row /\ Restarts(s)
  <2>1. s \in Subs /\ subs[s].status = "active" /\ subs[s] \in Row /\ subs[s].end \in Nat
    BY <1>1, <1>2 DEF Active, Row
  <2>2. PICK n \in Int : n = CalcNextResetTime(t, subs[s].end)
    BY <1>1, <2>1, NextResetIsInt
  <2>3. PICK w : w = AdminResetRow(subs[s], t, advance)
    OBVIOUS
  <2>4. /\ w \in Row /\ w.used = 0 /\ w.start = subs[s].start /\ w.status = "active"
        /\ w.last = subs[s].last \/ MayAdvance
    <3>1. CASE advance
      <4>1. w = [subs[s] EXCEPT !.used = 0, !.next = n, !.last = IF n > 0 THEN t ELSE 0]
        BY <2>2, <2>3, <3>1 DEF AdminResetRow
      <4>2. w \in Row
        BY <1>1, <2>1, <4>1 DEF Row
      <4>3. w.used = 0 /\ w.start = subs[s].start /\ w.status = "active"
        BY <2>1, <4>1 DEF Row
      <4> QED
        BY <1>1, <3>1, <4>2, <4>3
    <3>2. CASE ~advance
      BY <2>1, <2>3, <3>2 DEF AdminResetRow, Row
    <3> QED
      BY <3>1, <3>2
  <2>5. subs'[s] = w
    BY <1>2, <2>1, <2>3 DEF AdminReset
  <2>6. /\ hist'.charged[s] = 0 /\ hist'.carried[s] = 0
        /\ hist'.resets[s] = hist.resets[s]
    BY <1>3, <1>5, <1>7, <2>1
  <2> QED
    BY <1>1, <2>1, <2>4, <2>5, <2>6 DEF Restarts, Lasts
<1>9. ASSUME NEW s \in Subs, s \notin S
      PROVE  subs'[s] \in Row /\ GoesOn(s)
  <2>1. subs'[s] = subs[s] /\ subs[s] \in Row
    BY <1>1, <1>2, <1>9 DEF AdminReset
  <2>2. /\ hist'.charged[s] = hist.charged[s] /\ hist'.carried[s] = hist.carried[s]
        /\ hist'.resets[s] = hist.resets[s]
    BY <1>3, <1>5, <1>7, <1>9
  <2> QED
    BY <2>1, <2>2 DEF GoesOn, Lasts
<1>10. subs' \in [Subs -> Row]
  BY <1>8, <1>9 DEF AdminReset
<1> QED
  BY <1>7, <1>8, <1>9, <1>10 DEF RowsMove, RowStep

LEMMA ResetRowMoves ==
    ASSUME UsageTyped, NEW s \in Subs, ResetRow(s), pass.t > 0,
           subs[s].status # "none"
    PROVE  RowsMove
<1>1. CASE UNCHANGED <<subs, hist>>
  BY <1>1, UntouchedMoves
<1>2. CASE ~UNCHANGED <<subs, hist>>
  <2>1. /\ subs \in [Subs -> Row] /\ subs[s] \in Row /\ pass.t \in Nat /\ pass.t \in 1..now
        /\ period \in PeriodType /\ Total \in Nat
    BY SettingFacts DEF UsageTyped, PassType
  <2>2. PICK w : w = MaybeReset(subs[s], pass.t)
    OBVIOUS
  <2>3. /\ w \in Row /\ w.status = subs[s].status /\ w.start = subs[s].start
        /\ Resets(subs[s], pass.t) => /\ w.used = 0
                                      /\ w.last \in Due(subs[s], pass.t)
        /\ ~Resets(subs[s], pass.t) => /\ w.used = subs[s].used
                                       /\ w.last \in {subs[s].last, Base(subs[s])}
    BY <2>1, <2>2, ResetEffect
  <2>4. /\ subs' = [subs EXCEPT ![s] = w]
        /\ hist' = IF Resets(subs[s], pass.t) THEN ForgetPeriod(hist, {s}) ELSE hist
    BY <1>2, <2>2 DEF ResetRow
  <2>5. subs' \in [Subs -> Row] /\ subs'[s] = w /\ \A u \in Subs : u # s => subs'[u] = subs[u]
    BY <2>1, <2>3, <2>4
  <2> PICK h \in History : h = hist
    BY DEF UsageTyped
  <2>6. CASE Resets(subs[s], pass.t)
    <3>1. hist' = ForgetPeriod(h, {s})
      BY <2>4, <2>6
    <3>2. /\ hist' \in History
          /\ hist'.charged[s] = 0 /\ hist'.carried[s] = 0
          /\ hist'.resets[s] = h.resets[s] + 1
          /\ \A u \in Subs : u # s => /\ hist'.charged[u] = h.charged[u]
                                      /\ hist'.carried[u] = h.carried[u]
                                      /\ hist'.resets[u] = h.resets[u]
      BY <3>1, ForgetFacts
    <3>3. Restarts(s)
      BY <2>1, <2>3, <2>5, <2>6, <3>2 DEF Restarts, Lasts
    <3>4. ASSUME NEW u \in Subs, u # s PROVE GoesOn(u)
      BY <2>5, <3>2, <3>4 DEF GoesOn, Lasts
    <3> QED
      BY <2>5, <3>2, <3>3, <3>4 DEF RowsMove, RowStep
  <2>7. CASE ~Resets(subs[s], pass.t)
    <3>1. hist' = hist /\ hist' \in History
      BY <2>4, <2>7
    <3>2. ASSUME NEW u \in Subs PROVE GoesOn(u)
      BY <2>3, <2>5, <2>7, <3>1 DEF GoesOn, Lasts
    <3> QED
      BY <2>5, <3>1, <3>2 DEF RowsMove, RowStep
  <2> QED
    BY <2>6, <2>7
<1> QED
  BY <1>1, <1>2

LEMMA PreConsumeMoves ==
    ASSUME UsageTyped, NEW r \in Requests, NEW t, NEW n \in Amounts, PreConsume(r, t, n)
    PROVE  /\ RowsMove
           /\ \/ rec' = rec /\ pc' = [pc EXCEPT ![r] = "done"]
              \/ /\ pc' = [pc EXCEPT ![r] = "holding"]
                 /\ \E s \in Subs :
                       /\ subs'[s].status # "none"
                       /\ rec' = [rec EXCEPT ![r] = [status |-> "consumed",
                                                     sub |-> s, amount |-> n]]
<1>1. /\ subs \in [Subs -> Row] /\ t \in Nat /\ t \in 1..now /\ period \in PeriodType
      /\ Total \in Nat /\ n \in Nat
  BY SettingFacts, SettingsAssumption DEF UsageTyped, PreConsume, ReadClock
<1>2. PICK live : live = {s \in Subs : Active(s, t)}
  OBVIOUS
<1>3. PICK new : new = [s \in Subs |-> MaybeReset(subs[s], t)]
  OBVIOUS
<1>4. CASE rec' = rec /\ pc' = [pc EXCEPT ![r] = "done"] /\ UNCHANGED <<subs, hist>>
  BY <1>4, UntouchedMoves
<1>5. CASE ~(rec' = rec /\ pc' = [pc EXCEPT ![r] = "done"] /\ UNCHANGED <<subs, hist>>)
  <2>1. PICK s \in {u \in live : Fits(MaybeReset(subs[u], t), n)} :
           LET seen == {u \in live : Before(u, s)} \cup {s}
               reset == {u \in seen : Resets(subs[u], t)}
           IN  /\ subs' = [u \in Subs |->
                             IF u = s
                             THEN [MaybeReset(subs[u], t) EXCEPT !.used = @ + n]
                             ELSE IF u \in seen THEN MaybeReset(subs[u], t)
                             ELSE subs[u]]
               /\ rec' = [rec EXCEPT ![r] = [status |-> "consumed", sub |-> s, amount |-> n]]
               /\ hist' = Took(ForgetPeriod(hist, reset), r, s, n)
               /\ pc' = [pc EXCEPT ![r] = "holding"]
    BY <1>2, <1>5, ZenonT(60) DEF PreConsume
  <2>2. PICK seen : seen = {u \in live : Before(u, s)} \cup {s}
    OBVIOUS
  <2>3. PICK reset : reset = {u \in seen : Resets(subs[u], t)}
    OBVIOUS
  <2>4. s \in live /\ s \in Subs /\ s \in seen /\ Fits(new[s], n) /\ seen \subseteq live
    BY <1>2, <1>3, <2>2
  <2>5. \A u \in seen : u \in Subs /\ subs[u].status = "active"
    BY <1>2, <2>4 DEF Active
  <2>6. ASSUME NEW u \in Subs
        PROVE  /\ new[u] \in Row /\ new[u].status = subs[u].status
               /\ new[u].start = subs[u].start /\ new[u].used \in Nat
               /\ Resets(subs[u], t) => new[u].used = 0 /\ new[u].last \in Due(subs[u], t)
               /\ ~Resets(subs[u], t) => /\ new[u].used = subs[u].used
                                         /\ new[u].last \in {subs[u].last, Base(subs[u])}
    <3>1. subs[u] \in Row /\ new[u] = MaybeReset(subs[u], t)
      BY <1>1, <1>3
    <3>2. PICK w : w = new[u]
      OBVIOUS
    <3>3. /\ w \in Row /\ w.status = subs[u].status /\ w.start = subs[u].start
          /\ Resets(subs[u], t) => w.used = 0 /\ w.last \in Due(subs[u], t)
          /\ ~Resets(subs[u], t) => /\ w.used = subs[u].used
                                    /\ w.last \in {subs[u].last, Base(subs[u])}
      BY <1>1, <3>1, <3>2, ResetEffect, SMTT(30)
    <3>4. w.used \in Nat
      BY <3>3 DEF Row
    <3> QED
      BY <3>2, <3>3, <3>4
  <2>7. subs' = [u \in Subs |-> IF u = s THEN [new[u] EXCEPT !.used = @ + n]
                                ELSE IF u \in seen THEN new[u] ELSE subs[u]]
    BY <1>3, <2>1, <2>2
  <2>8. /\ subs'[s] \in Row /\ subs'[s].used = new[s].used + n
        /\ subs'[s].status = subs[s].status /\ subs'[s].start = subs[s].start
        /\ subs'[s].last = new[s].last
    <3>1. PICK w : w = new[s] /\ w \in Row /\ w.used \in Nat /\ w.status = subs[s].status
                   /\ w.start = subs[s].start
      BY <2>4, <2>6
    <3>2. subs'[s] = [w EXCEPT !.used = @ + n]
      BY <2>4, <2>7, <3>1
    <3> QED
      BY <1>1, <3>1, <3>2 DEF Row
  <2>9. ASSUME NEW u \in Subs, u # s
        PROVE  /\ subs'[u] \in Row
               /\ u \in seen => subs'[u] = new[u]
               /\ u \notin seen => subs'[u] = subs[u]
    BY <1>1, <2>6, <2>7, <2>9
  <2>10. subs' \in [Subs -> Row]
    BY <2>4, <2>7, <2>8, <2>9
  <2> PICK h \in History : h = hist
    BY DEF UsageTyped
  <2>11. PICK f : f = ForgetPeriod(h, reset)
    OBVIOUS
  <2>12. /\ f \in History
         /\ \A u \in Subs : u \in reset => /\ f.charged[u] = 0 /\ f.carried[u] = 0
                                           /\ f.resets[u] = h.resets[u] + 1
         /\ \A u \in Subs : u \notin reset => /\ f.charged[u] = h.charged[u]
                                              /\ f.carried[u] = h.carried[u]
                                              /\ f.resets[u] = h.resets[u]
    BY <2>11, ForgetFacts
  <2>13. hist' = Took(f, r, s, n) /\ n \in Int
    BY <1>1, <2>1, <2>2, <2>3, <2>11
  <2>14. /\ hist' \in History
         /\ hist'.charged[s] = f.charged[s] + n /\ hist'.carried[s] = f.carried[s]
         /\ hist'.resets = f.resets
         /\ \A u \in Subs : u # s => /\ hist'.charged[u] = f.charged[u]
                                     /\ hist'.carried[u] = f.carried[u]
    BY <2>4, <2>12, <2>13, TookFacts
  <2>15. /\ h.charged[s] \in Int /\ h.carried[s] \in Int
         /\ Total = 0 \/ new[s].used + n <= Total
    BY <1>1, <2>4, <2>6 DEF History, Fits
  <2>16. RowStep(s)
    <3>1. CASE s \in reset
      <4>1. Resets(subs[s], t) /\ f.charged[s] = 0 /\ f.carried[s] = 0
            /\ f.resets[s] = h.resets[s] + 1
        BY <2>3, <2>4, <2>12, <3>1
      <4> QED
        BY <1>1, <2>4, <2>5, <2>6, <2>8, <2>14, <2>15, <4>1 DEF RowStep, Restarts, Lasts
    <3>2. CASE s \notin reset
      <4>1. ~Resets(subs[s], t) /\ f.charged[s] = h.charged[s] /\ f.carried[s] = h.carried[s]
            /\ f.resets[s] = h.resets[s]
        BY <2>3, <2>4, <2>12, <3>2
      <4>2. /\ new[s].used = subs[s].used /\ subs[s].used \in Nat
            /\ new[s].last \in {subs[s].last, Base(subs[s])} /\ subs[s].status = "active"
        BY <2>4, <2>5, <2>6, <4>1
      <4> QED
        BY <1>1, <2>4, <2>8, <2>14, <2>15, <4>1, <4>2 DEF RowStep, GoesOn, Lasts
    <3> QED
      BY <3>1, <3>2
  <2>17. ASSUME NEW u \in Subs, u # s PROVE RowStep(u)
    <3>1. CASE u \in reset
      <4>1. /\ Resets(subs[u], t) /\ f.charged[u] = 0 /\ f.carried[u] = 0
            /\ f.resets[u] = h.resets[u] + 1 /\ u \in seen /\ subs[u].status = "active"
        BY <2>3, <2>5, <2>12, <3>1
      <4>2. /\ subs'[u].used = 0 /\ subs'[u].last \in Due(subs[u], t)
            /\ subs'[u].status = subs[u].status /\ subs'[u].start = subs[u].start
        BY <2>6, <2>9, <2>17, <4>1
      <4> QED
        BY <1>1, <2>14, <2>17, <4>1, <4>2 DEF RowStep, Restarts, Lasts
    <3>2. CASE u \notin reset
      <4>1. /\ f.charged[u] = h.charged[u] /\ f.carried[u] = h.carried[u]
            /\ f.resets[u] = h.resets[u] /\ (u \in seen => ~Resets(subs[u], t))
        BY <2>3, <2>12, <3>2
      <4>2. /\ subs'[u].used = subs[u].used
            /\ subs'[u].last \in {subs[u].last, Base(subs[u])}
            /\ subs'[u].status = subs[u].status /\ subs'[u].start = subs[u].start
        BY <2>6, <2>9, <2>17, <4>1
      <4> QED
        BY <2>14, <2>17, <4>1, <4>2 DEF RowStep, GoesOn, Lasts
    <3> QED
      BY <3>1, <3>2
  <2>18. subs'[s].status # "none"
    BY <2>4, <2>5, <2>8
  <2> QED
    BY <2>1, <2>4, <2>10, <2>14, <2>16, <2>17, <2>18 DEF RowsMove
<1> QED
  BY <1>4, <1>5

-----------------------------------------------------------------------------
(* Every step keeps the types and who holds what.                          *)

\* The rows a pass still has to look at exist.
PassRows ==
    /\ pass.at = "rows" => pass.t > 0
    /\ \A s \in pass.rows : subs[s].status # "none"

UsageHeld ==
    /\ UsageTyped
    /\ \A r \in Requests : Holder(r) /\ Owed(r)
    /\ PassRows

LEMMA DeltasAreInt == ASSUME NEW d \in Deltas PROVE d \in Int
  BY SettingsAssumption DEF Deltas

LEMMA RequestMoves ==
    ASSUME UsageHeld, NEW r \in Requests, Request(r) \/ Refund(r) PROVE RowsMove
<1>1. UsageTyped /\ Holder(r) /\ rec[r].amount \in Nat /\ extra[r] \in Nat
  BY DEF UsageHeld, UsageTyped, RecType
<1>2. ASSUME NEW d \in Int, DeltaAccepted(rec[r].sub, d), ApplyDelta(r, d),
             pc[r] \in {"holding", "refund", "mark", "extra"}
      PROVE  RowsMove
  BY <1>1, <1>2, DeltaMoves DEF Holder
<1>3. ASSUME NEW n \in Amounts, Reserve(r, n) PROVE RowsMove
  BY <1>2, <1>3, SettingsAssumption DEF Reserve
<1>4. ASSUME NEW d \in Deltas, Settle(r, d) PROVE RowsMove
  BY <1>1, <1>2, <1>4, DeltasAreInt, UntouchedMoves DEF Settle
<1>5. CASE RefundDelta(r)
  <2>1. PICK d \in Int : d = 0 - rec[r].amount
    BY <1>1
  <2> QED
    BY <1>1, <1>2, <1>5, <2>1, UntouchedMoves DEF RefundDelta
<1>6. CASE RefundExtra(r)
  <2>1. PICK d \in Int : d = 0 - extra[r]
    BY <1>1
  <2> QED
    BY <1>1, <1>2, <1>6, <2>1, UntouchedMoves DEF RefundExtra
<1>7. CASE BeginRefund(r) \/ Crash(r) \/ Cleanup(r) \/ RefundMark(r)
  BY <1>1, <1>7, UntouchedMoves DEF BeginRefund, Crash, Cleanup, RefundMark
<1>8. ASSUME NEW t \in 1..now, NEW n \in Amounts, PreConsume(r, t, n) PROVE RowsMove
  BY <1>1, <1>8, PreConsumeMoves
<1> QED
  BY <1>3, <1>4, <1>5, <1>6, <1>7, <1>8 DEF Request, Refund

LEMMA NextMoves ==
    ASSUME UsageHeld, [Next]_vars PROVE RowsMove
<1>1. UsageTyped
  BY DEF UsageHeld
<1>2. CASE Maintenance
  <2>1. ASSUME NEW s \in Subs, ResetRow(s) PROVE RowsMove
    BY <1>1, <2>1, ResetRowMoves DEF UsageHeld, PassRows, ResetRow
  <2>2. ASSUME NEW t \in 1..now, ExpireDue(t) PROVE RowsMove
    BY <1>1, <2>2, ExpireMoves
  <2>3. ASSUME BeginPass \/ EndBatch \/ \E t \in 1..now : ListDue(t) PROVE RowsMove
    BY <1>1, <2>3, UntouchedMoves DEF BeginPass, EndBatch, ListDue
  <2> QED
    BY <1>2, <2>1, <2>2, <2>3 DEF Maintenance
<1>3. CASE Admin
  <2>1. CASE UpdatePlan
    BY <1>1, <2>1, UntouchedMoves DEF UpdatePlan
  <2> QED
    BY <1>1, <1>3, <2>1, CreateMoves, AdminEndsMove, AdminResetMoves DEF Admin
<1>4. CASE PassFails \/ Tick \/ UNCHANGED vars
  BY <1>1, <1>4, UntouchedMoves DEF PassFails, Tick, vars
<1> QED
  BY <1>2, <1>3, <1>4, RequestMoves DEF Next

LEMMA TimesFacts ==
    ASSUME NEW a \in Nat, NEW f \in Nat
    PROVE  /\ a * f \in Nat /\ a * (1 + f) \in Nat
           /\ a * (1 + f) = a * f + a /\ a * f <= a * (1 + f)
  OBVIOUS

LEMMA TimesGrow ==
    ASSUME NEW a \in Nat, NEW f \in Nat, NEW g \in Nat, f <= g
    PROVE  a * f <= a * g /\ a * (1 + f) <= a * (1 + g)
<1>1. PICK d \in Nat : g = f + d
  OBVIOUS
<1>2. a * d \in Nat /\ a * g = a * f + a * d /\ a * f \in Nat
  BY <1>1
<1>3. a * (1 + g) = a * g + a /\ a * (1 + f) = a * f + a
  BY TimesFacts
<1> QED
  BY <1>2, <1>3

\* Where request r may be after a step: l its place, w its record and g what it
\* was given back, when the next state has f failed marks.
MayBe(r, l, w, g, f) ==
    /\ l \in Labels \ {"idle"} /\ w \in RecType /\ g \in Nat
    /\ pc' = [pc EXCEPT ![r] = l]
    /\ rec' = [rec EXCEPT ![r] = w]
    /\ given' = [given EXCEPT ![r] = g]
    /\ l \in {"holding", "refund", "mark", "extra"}
       => w.sub \in Subs /\ subs'[w.sub].status # "none"
    /\ g <= w.amount * (1 + f)
    /\ w.status = "consumed" /\ l \notin {"mark", "done"} => g <= w.amount * f

\* The budgets a request draws on.
Drawn ==
    /\ budget' \in Budget
    /\ budget'.plan = budget.plan /\ budget'.reset = budget.reset
    /\ budget'.mark <= budget.mark

LEMMA StatusStays ==
    ASSUME RowsMove, NEW s \in Subs, subs[s].status # "none"
    PROVE  subs'[s].status # "none"
  BY DEF RowsMove, RowStep, GoesOn, Restarts, Begins, Lasts

\* A step that leaves the record and what was given back alone.
LEMMA PlaceOnly ==
    ASSUME UsageHeld, RowsMove, NEW r \in Requests, NEW l \in Labels \ {"idle"},
           pc[r] \in {"holding", "refund", "extra"} \/ l = "done",
           rec' = rec, given' = given, pc' = [pc EXCEPT ![r] = l]
    PROVE  MayBe(r, l, rec[r], given[r], Failed)
<1>1. /\ rec \in [Requests -> RecType] /\ given \in [Requests -> Nat]
      /\ pc[r] \in Labels /\ Holder(r) /\ Owed(r)
  BY DEF UsageHeld, UsageTyped
<1>2. rec' = [rec EXCEPT ![r] = rec[r]] /\ given' = [given EXCEPT ![r] = given[r]]
  BY <1>1
<1>3. l # "done" => rec[r].sub \in Subs /\ subs'[rec[r].sub].status # "none"
  BY <1>1, StatusStays DEF Holder
<1> QED
  BY <1>1, <1>2, <1>3 DEF MayBe, Owed

LEMMA RefundPlaces ==
    ASSUME UsageHeld, RowsMove, NEW r \in Requests, RefundDelta(r) \/ RefundMark(r)
    PROVE  /\ Drawn
           /\ \E l, w, g : MayBe(r, l, w, g, MarkFaults - budget'.mark)
<1>1. /\ rec \in [Requests -> RecType] /\ given \in [Requests -> Nat]
      /\ pc[r] \in Labels /\ Holder(r) /\ Owed(r) /\ budget \in Budget
      /\ MarkFaults \in Nat /\ budget.mark <= MarkFaults
      /\ rec[r] \in RecType /\ given[r] \in Nat
  BY SettingFacts DEF UsageHeld, UsageTyped
<1>2. PICK f \in Nat : f = Failed /\ f = MarkFaults - budget.mark
  BY <1>1 DEF Failed, Budget
<1>3. PICK a \in Nat : a = rec[r].amount
  BY <1>1 DEF RecType
<1>4. /\ a * f \in Nat /\ a * (1 + f) = a * f + a /\ a * (1 + f) \in Nat
      /\ a * f <= a * (1 + f)
  BY TimesFacts
<1>5. rec[r].sub \in Subs /\ subs'[rec[r].sub].status # "none"
  BY <1>1, StatusStays DEF Holder, RefundDelta, RefundMark
<1>6. CASE RefundDelta(r)
  <2>1. Drawn /\ budget'.mark = budget.mark
    BY <1>1, <1>6 DEF RefundDelta, Fault, NoFault, Drawn, Budget
  <2>2. CASE \E l \in {"refund", "extra"} : given' = given /\ pc' = [pc EXCEPT ![r] = l]
    <3>1. PICK l \in {"refund", "extra"} : given' = given /\ pc' = [pc EXCEPT ![r] = l]
      BY <2>2
    <3> QED
      BY <1>2, <1>6, <2>1, <3>1, PlaceOnly DEF RefundDelta, Labels
  <2>3. CASE ~\E l \in {"refund", "extra"} : given' = given /\ pc' = [pc EXCEPT ![r] = l]
    <3>1. PICK g \in Nat : g = given[r] + a
      BY <1>1
    <3>2. /\ Refundable(r) /\ rec' = rec /\ pc' = [pc EXCEPT ![r] = "mark"]
          /\ given' = [given EXCEPT ![r] = g] /\ pc[r] = "refund"
      BY <1>1, <1>3, <1>6, <2>3, <3>1 DEF RefundDelta, Retry
    <3>3. g <= a * (1 + f)
      BY <1>1, <1>2, <1>3, <1>4, <3>1, <3>2 DEF Owed, Refundable
    <3>4. rec' = [rec EXCEPT ![r] = rec[r]]
      BY <1>1, <3>2
    <3>5. MayBe(r, "mark", rec[r], g, f)
      BY <1>1, <1>3, <1>5, <3>2, <3>3, <3>4 DEF MayBe, Labels
    <3> QED
      BY <1>2, <2>1, <3>5
  <2> QED
    BY <2>2, <2>3
<1>7. CASE RefundMark(r)
  <2>1. given' = [given EXCEPT ![r] = given[r]] /\ given[r] <= a * (1 + f)
    BY <1>1, <1>2, <1>3, <1>7 DEF RefundMark, Owed
  <2>2. CASE budget'.mark = budget.mark
    <3>1. PICK w : w = [rec[r] EXCEPT !.status = "refunded"]
      OBVIOUS
    <3>2. w \in RecType /\ w.amount = a /\ w.status = "refunded" /\ w.sub = rec[r].sub
      BY <1>1, <1>3, <3>1 DEF RecType
    <3>3. /\ Drawn /\ rec' = [rec EXCEPT ![r] = w]
          /\ \E l \in {"refund", "extra"} : pc' = [pc EXCEPT ![r] = l]
      BY <1>1, <1>7, <2>2, <3>1 DEF RefundMark, Retry, Drawn, Budget
    <3>4. PICK l \in {"refund", "extra"} : pc' = [pc EXCEPT ![r] = l]
      BY <3>3
    <3>5. MayBe(r, l, w, given[r], f)
      BY <1>1, <1>5, <2>1, <3>2, <3>3, <3>4 DEF MayBe, Labels
    <3> QED
      BY <1>2, <2>2, <3>3, <3>5
  <2>3. CASE budget'.mark # budget.mark
    <3>1. /\ Drawn /\ rec' = rec /\ budget'.mark = budget.mark - 1
          /\ \E l \in {"refund", "extra"} : pc' = [pc EXCEPT ![r] = l]
      BY <1>1, <1>7, <2>3 DEF RefundMark, Retry, Drawn, Budget
    <3>2. PICK l \in {"refund", "extra"} : pc' = [pc EXCEPT ![r] = l]
      BY <3>1
    <3>3. PICK f1 \in Nat : f1 = 1 + f /\ f1 = MarkFaults - budget'.mark
      BY <1>1, <1>2, <3>1 DEF Budget
    <3>4. given[r] <= a * f1 /\ given[r] <= a * (1 + f1)
      <4>1. a * f1 \in Nat /\ a * (1 + f1) \in Nat /\ a * f1 <= a * (1 + f1)
        BY TimesFacts
      <4> QED
        BY <1>1, <2>1, <3>3, <4>1
    <3>5. rec' = [rec EXCEPT ![r] = rec[r]]
      BY <1>1, <3>1
    <3>6. MayBe(r, l, rec[r], given[r], f1)
      BY <1>1, <1>3, <1>5, <2>1, <3>2, <3>4, <3>5 DEF MayBe, Labels
    <3> QED
      BY <3>1, <3>3, <3>6
  <2> QED
    BY <2>2, <2>3
<1> QED
  BY <1>6, <1>7

LEMMA RequestPlaces ==
    ASSUME UsageHeld, RowsMove, NEW r \in Requests, Request(r) \/ Refund(r)
    PROVE  /\ Drawn
           /\ \E l, w, g : MayBe(r, l, w, g, MarkFaults - budget'.mark)
           /\ extra' \in [Requests -> Nat]
           /\ UNCHANGED <<now, period, pass>>
<1>1. /\ rec \in [Requests -> RecType] /\ given \in [Requests -> Nat] /\ pc \in [Requests -> Labels]
      /\ budget \in Budget /\ MarkFaults \in Nat /\ budget.mark <= MarkFaults
      /\ extra \in [Requests -> Nat] /\ Owed(r) /\ Amounts \subseteq Nat /\ Subs \subseteq Nat
  BY SettingFacts, SettingsAssumption DEF UsageHeld, UsageTyped
<1>2. PICK f \in Nat : f = Failed /\ f = MarkFaults - budget.mark
  BY <1>1 DEF Failed, Budget
<1>3. CASE RefundDelta(r) \/ RefundMark(r)
  BY <1>1, <1>3, RefundPlaces DEF RefundDelta, RefundMark
<1>4. ASSUME NEW t \in 1..now, NEW n \in Amounts, PreConsume(r, t, n)
      PROVE  /\ Drawn /\ \E l, w, g : MayBe(r, l, w, g, f)
             /\ extra' = extra /\ UNCHANGED <<now, period, pass, budget>>
  <2>1. Drawn /\ UNCHANGED <<now, period, pass, budget, extra, given>> /\ pc[r] = "idle"
    BY <1>1, <1>4 DEF PreConsume, Drawn, Budget
  <2>2. given[r] = 0 /\ given' = [given EXCEPT ![r] = 0] /\ n \in Nat
    BY <1>1, <2>1 DEF Owed
  <2>3. \/ rec' = rec /\ pc' = [pc EXCEPT ![r] = "done"]
        \/ /\ pc' = [pc EXCEPT ![r] = "holding"]
           /\ \E s \in Subs :
                 /\ subs'[s].status # "none"
                 /\ rec' = [rec EXCEPT ![r] = [status |-> "consumed", sub |-> s, amount |-> n]]
    BY <1>4, PreConsumeMoves DEF UsageHeld
  <2>4. CASE rec' = rec /\ pc' = [pc EXCEPT ![r] = "done"]
    BY <1>2, <2>1, <2>4, PlaceOnly DEF Labels
  <2>5. CASE /\ pc' = [pc EXCEPT ![r] = "holding"]
             /\ \E s \in Subs :
                   /\ subs'[s].status # "none"
                   /\ rec' = [rec EXCEPT ![r] = [status |-> "consumed", sub |-> s, amount |-> n]]
    <3>1. PICK s \in Subs :
             /\ subs'[s].status # "none"
             /\ rec' = [rec EXCEPT ![r] = [status |-> "consumed", sub |-> s, amount |-> n]]
      BY <2>5
    <3>2. PICK w : w = [status |-> "consumed", sub |-> s, amount |-> n]
      OBVIOUS
    <3>3. w \in RecType /\ w.amount = n /\ w.sub = s
      BY <1>1, <2>2, <3>2 DEF RecType
    <3>4. 0 <= n * f /\ 0 <= n * (1 + f)
      BY <2>2, TimesFacts
    <3>5. MayBe(r, "holding", w, 0, f)
      BY <2>2, <2>5, <3>1, <3>2, <3>3, <3>4 DEF MayBe, Labels
    <3> QED
      BY <2>1, <3>5
  <2> QED
    BY <2>3, <2>4, <2>5
<1>5. CASE BeginRefund(r) \/ Crash(r) \/ RefundExtra(r) \/ \E d \in Deltas : Settle(r, d)
  <2>1. /\ Drawn /\ budget'.mark = budget.mark /\ extra' = extra
        /\ UNCHANGED <<now, period, pass, rec, given>>
    BY <1>1, <1>5 DEF BeginRefund, Crash, RefundExtra, Settle, Fault, NoFault, Drawn, Budget
  <2>2. PICK l \in {"refund", "done"} :
           pc' = [pc EXCEPT ![r] = l] /\ (l = "refund" => pc[r] = "holding")
    BY <1>5 DEF BeginRefund, Crash, RefundExtra, Settle
  <2>3. MayBe(r, l, rec[r], given[r], Failed)
    BY <2>1, <2>2, PlaceOnly DEF Labels
  <2> QED
    BY <1>1, <1>2, <2>1, <2>3
<1>6. ASSUME NEW n \in Amounts, Reserve(r, n)
      PROVE  /\ Drawn /\ \E l, w, g : MayBe(r, l, w, g, f)
             /\ extra' \in [Requests -> Nat] /\ UNCHANGED <<now, period, pass, budget>>
  <2>1. /\ Drawn /\ UNCHANGED <<now, period, pass, rec, given, pc, budget>>
        /\ extra' \in [Requests -> Nat] /\ pc[r] = "holding"
    BY <1>1, <1>6 DEF Reserve, Drawn, Budget
  <2>2. pc' = [pc EXCEPT ![r] = "holding"]
    BY <1>1, <2>1
  <2>3. MayBe(r, "holding", rec[r], given[r], Failed)
    BY <2>1, <2>2, PlaceOnly DEF Labels
  <2> QED
    BY <1>2, <2>1, <2>3
<1>7. CASE Cleanup(r)
  <2>1. /\ Drawn /\ UNCHANGED <<now, period, pass, given, pc, budget, extra>>
        /\ pc[r] = "done"
    BY <1>1, <1>7 DEF Cleanup, Drawn, Budget
  <2>2. PICK w : w = [rec[r] EXCEPT !.status = "none"]
    OBVIOUS
  <2>3. w \in RecType /\ w.amount = rec[r].amount /\ w.status = "none"
    BY <1>1, <2>2 DEF RecType
  <2>4. /\ rec' = [rec EXCEPT ![r] = w] /\ pc' = [pc EXCEPT ![r] = "done"]
        /\ given' = [given EXCEPT ![r] = given[r]]
    BY <1>1, <1>7, <2>1, <2>2 DEF Cleanup
  <2>5. MayBe(r, "done", w, given[r], f)
    BY <1>1, <1>2, <2>3, <2>4 DEF MayBe, Owed, Labels
  <2> QED
    BY <1>1, <1>2, <2>1, <2>5
<1> QED
  BY <1>1, <1>2, <1>3, <1>4, <1>5, <1>6, <1>7 DEF Request, Refund

\* The others are where they were.
LEMMA RequestHeld ==
    ASSUME UsageHeld, RowsMove, NEW r \in Requests, Request(r) \/ Refund(r),
           setting' = setting
    PROVE  UsageHeld'
<1>1. PICK l, w, g : MayBe(r, l, w, g, MarkFaults - budget'.mark)
  BY RequestPlaces
<1>2. Drawn /\ extra' \in [Requests -> Nat] /\ UNCHANGED <<now, period, pass>>
  BY RequestPlaces
<1>3. /\ MarkFaults' = MarkFaults /\ PlanUpdates' = PlanUpdates
      /\ AdminResets' = AdminResets /\ MarkFaults \in Nat
  BY SettingFacts DEF MarkFaults, PlanUpdates, AdminResets, UsageHeld, UsageTyped
<1>4. PICK f \in Nat : f = Failed /\ f = MarkFaults - budget.mark
  BY <1>3 DEF Failed, Budget, UsageHeld, UsageTyped
<1>5. PICK f1 \in Nat : f1 = MarkFaults - budget'.mark /\ f <= f1
  BY <1>2, <1>3, <1>4 DEF Drawn, Budget, UsageHeld, UsageTyped
<1>6. Failed' = f1
  BY <1>3, <1>5 DEF Failed
<1>7. /\ rec \in [Requests -> RecType] /\ given \in [Requests -> Nat]
      /\ pc \in [Requests -> Labels]
  BY DEF UsageHeld, UsageTyped
<1>8. /\ rec' \in [Requests -> RecType] /\ given' \in [Requests -> Nat]
      /\ pc' \in [Requests -> Labels]
      /\ rec'[r] = w /\ given'[r] = g /\ pc'[r] = l
      /\ \A q \in Requests : q # r => /\ rec'[q] = rec[q] /\ given'[q] = given[q]
                                      /\ pc'[q] = pc[q]
  BY <1>1, <1>7 DEF MayBe
<1>9. UsageTyped'
  BY <1>2, <1>3, <1>8 DEF UsageHeld, UsageTyped, RowsMove, Drawn, Budget
<1>10. Holder(r)'
  BY <1>1, <1>8 DEF MayBe, Holder
<1>11. Owed(r)'
  BY <1>1, <1>5, <1>6, <1>8 DEF MayBe, Owed
<1>12. ASSUME NEW q \in Requests, q # r PROVE Holder(q)' /\ Owed(q)'
  <2>1. Holder(q) /\ Owed(q)
    BY DEF UsageHeld
  <2>2. Holder(q)'
    BY <1>8, <1>12, <2>1, StatusStays DEF Holder
  <2>3. PICK a \in Nat : a = rec[q].amount
    BY <1>7 DEF RecType
  <2>4. a * f \in Nat /\ a * f1 \in Nat /\ a * (1 + f) \in Nat /\ a * (1 + f1) \in Nat
        /\ a * f <= a * f1 /\ a * (1 + f) <= a * (1 + f1)
    BY <1>5, TimesFacts, TimesGrow
  <2>5. given[q] \in Nat
    BY <1>7
  <2> QED
    BY <1>4, <1>6, <1>8, <1>12, <2>1, <2>2, <2>3, <2>4, <2>5 DEF Owed
<1>13. PassRows'
  BY <1>2, StatusStays DEF UsageHeld, UsageTyped, PassRows, PassType
<1> QED
  BY <1>9, <1>10, <1>11, <1>12, <1>13 DEF UsageHeld

LEMMA OtherHeld ==
    ASSUME UsageHeld, RowsMove, UNCHANGED <<setting, rec, pc, given, extra>>,
           now' \in Nat, period' \in PeriodType,
           pass' \in PassType, pass'.t <= now', PassRows',
           budget' \in Budget, budget'.plan <= budget.plan, budget'.reset <= budget.reset,
           budget'.mark = budget.mark
    PROVE  UsageHeld'
<1>1. /\ MarkFaults' = MarkFaults /\ PlanUpdates' = PlanUpdates /\ AdminResets' = AdminResets
      /\ PlanUpdates \in Nat /\ AdminResets \in Nat
  BY SettingFacts DEF MarkFaults, PlanUpdates, AdminResets, UsageHeld, UsageTyped
<1>2. UsageTyped'
  <2>1. budget'.plan <= PlanUpdates /\ budget'.reset <= AdminResets
    BY <1>1 DEF UsageHeld, UsageTyped, Budget
  <2> QED
    BY <1>1, <2>1 DEF UsageHeld, UsageTyped, RowsMove
<1>3. Failed' = Failed
  BY <1>1 DEF Failed
<1>4. ASSUME NEW r \in Requests PROVE Holder(r)' /\ Owed(r)'
  <2>1. Holder(r) /\ Owed(r)
    BY DEF UsageHeld
  <2>2. Holder(r)'
    BY <2>1, StatusStays DEF Holder
  <2>3. Owed(r)'
    BY <1>3, <2>1 DEF Owed
  <2> QED
    BY <2>2, <2>3
<1> QED
  BY <1>2, <1>4 DEF UsageHeld

LEMMA NextHeld ==
    ASSUME UsageHeld, [Next]_vars PROVE UsageHeld' /\ RowsMove
<1>1. RowsMove /\ setting' = setting
  BY NextMoves DEF Next, vars
<1>2. /\ UsageTyped /\ now \in Nat /\ period \in PeriodType /\ pass \in PassType
      /\ pass.t <= now /\ PassRows /\ budget \in Budget /\ Periods \subseteq PeriodType
      /\ pass.rows \subseteq Subs /\ pass.t \in Nat /\ pass.count \in Nat
  BY SettingFacts DEF UsageHeld, UsageTyped, PassType
<1>3. /\ budget.plan <= budget.plan /\ budget.reset <= budget.reset
  BY <1>2 DEF Budget
<1>4. ASSUME pass' = pass PROVE PassRows'
  BY <1>1, <1>2, <1>4, StatusStays DEF PassRows
<1>5. CASE Maintenance
  <2>1. UNCHANGED <<rec, pc, given, extra, now, period, budget>>
    BY <1>5 DEF Maintenance, BeginPass, ExpireDue, ListDue, ResetRow, EndBatch
  <2>2. pass' \in PassType /\ pass'.t <= now /\ PassRows'
    <3>1. CASE BeginPass \/ EndBatch
      <4>1. PICK a \in {"idle", "expire", "list"} :
               pass' = [at |-> a, t |-> 0, rows |-> {}, count |-> 0]
        BY <3>1 DEF BeginPass, EndBatch
      <4> QED
        BY <1>2, <4>1 DEF PassType, PassRows
    <3>2. ASSUME NEW t \in 1..now, ExpireDue(t)
          PROVE  pass' \in PassType /\ pass'.t <= now /\ PassRows'
      <4>1. \/ pass' = pass
            \/ /\ pass' = [pass EXCEPT !.at = "list"]
        BY <3>2 DEF ExpireDue
      <4>2. CASE pass' = [pass EXCEPT !.at = "list"]
        <5>1. /\ pass' \in PassType /\ pass'.at = "list" /\ pass'.t = pass.t
              /\ pass'.rows = pass.rows
          BY <1>2, <4>2 DEF PassType
        <5> QED
          BY <1>1, <1>2, <5>1, StatusStays DEF PassRows
      <4> QED
        BY <1>2, <1>4, <4>1, <4>2
    <3>3. ASSUME NEW t \in 1..now, ListDue(t)
          PROVE  pass' \in PassType /\ pass'.t <= now /\ PassRows'
      <4>1. CASE pass' = [pass EXCEPT !.at = "idle", !.t = 0]
        <5>1. pass' \in PassType
          BY <1>2, <4>1 DEF PassType
        <5>2. pass'.at = "idle" /\ pass'.t = 0 /\ pass'.rows = pass.rows
          BY <1>2, <4>1 DEF PassType
        <5> QED
          BY <1>1, <1>2, <5>1, <5>2, StatusStays DEF PassRows
      <4>2. ASSUME NEW rows, rows \subseteq {s \in Subs : subs[s].status = "active"},
                   pass' = [at |-> "rows", t |-> t, rows |-> rows, count |-> 0]
            PROVE  pass' \in PassType /\ pass'.t <= now /\ PassRows'
        <5>1. pass' \in PassType /\ pass'.at = "rows" /\ pass'.t = t /\ pass'.rows = rows
          BY <1>2, <4>2 DEF PassType
        <5> QED
          BY <1>1, <1>2, <4>2, <5>1, StatusStays DEF PassRows
      <4>3. \/ pass' = [pass EXCEPT !.at = "idle", !.t = 0]
            \/ \E rows : /\ rows \subseteq {s \in Subs : subs[s].status = "active"}
                         /\ pass' = [at |-> "rows", t |-> t, rows |-> rows, count |-> 0]
        BY <3>3 DEF ListDue
      <4> QED
        BY <4>1, <4>2, <4>3
    <3>4. ASSUME NEW s \in Subs, ResetRow(s)
          PROVE  pass' \in PassType /\ pass'.t <= now /\ PassRows'
      <4>1. PICK c \in Nat : pass' = [pass EXCEPT !.rows = @ \ {s}, !.count = c]
        <5>1. CASE pass' = [pass EXCEPT !.rows = @ \ {s}, !.count = @ + 1]
          <6>1. PICK c \in Nat : c = pass.count + 1
            BY <1>2
          <6>2. pass' = [pass EXCEPT !.rows = @ \ {s}, !.count = c]
            BY <1>2, <5>1, <6>1 DEF PassType
          <6> QED
            BY <6>2
        <5>2. CASE pass' = [pass EXCEPT !.rows = @ \ {s}]
          <6>1. pass' = [pass EXCEPT !.rows = @ \ {s}, !.count = pass.count]
            BY <1>2, <5>2 DEF PassType
          <6> QED
            BY <1>2, <6>1
        <5> QED
          BY <3>4, <5>1, <5>2 DEF ResetRow
      <4>2. pass' \in PassType
        BY <1>2, <4>1 DEF PassType
      <4>3. pass'.at = pass.at /\ pass'.t = pass.t /\ pass'.rows = pass.rows \ {s}
        BY <1>2, <4>1 DEF PassType
      <4> QED
        BY <1>1, <1>2, <4>2, <4>3, StatusStays DEF PassRows
    <3> QED
      BY <1>5, <3>1, <3>2, <3>3, <3>4 DEF Maintenance
  <2> QED
    BY <1>1, <1>2, <1>3, <2>1, <2>2, OtherHeld
<1>6. CASE Admin
  <2>1. UNCHANGED <<rec, pc, given, extra, now, pass>>
    BY <1>6 DEF Admin, Create, AdminInvalidate, AdminDelete, AdminReset, UpdatePlan
  <2>2. /\ budget' \in Budget /\ budget'.plan <= budget.plan
        /\ budget'.reset <= budget.reset /\ budget'.mark = budget.mark
    <3>1. \/ budget' = budget \/ budget' = [budget EXCEPT !.plan = @ - 1]
          \/ budget' = [budget EXCEPT !.reset = @ - 1]
      BY <1>6 DEF Admin, Create, AdminInvalidate, AdminDelete, AdminReset, UpdatePlan
    <3> QED
      BY <1>2, <3>1 DEF Budget
  <2>3. period' \in PeriodType
    BY <1>2, <1>6 DEF Admin, Create, AdminInvalidate, AdminDelete, AdminReset, UpdatePlan
  <2> QED
    BY <1>1, <1>2, <1>4, <2>1, <2>2, <2>3, OtherHeld
<1>7. CASE PassFails
  <2>1. /\ UNCHANGED <<rec, pc, given, extra, now, period>>
        /\ pass' = [at |-> "idle", t |-> 0, rows |-> {}, count |-> 0]
    BY <1>7 DEF PassFails
  <2>2. pass' \in PassType /\ pass'.t <= now /\ PassRows'
    BY <1>2, <2>1 DEF PassType, PassRows
  <2>3. /\ budget' \in Budget /\ budget'.plan <= budget.plan
        /\ budget'.reset <= budget.reset /\ budget'.mark = budget.mark
    BY <1>2, <1>7 DEF PassFails, Fault, Budget
  <2> QED
    BY <1>1, <1>2, <2>1, <2>2, <2>3, OtherHeld
<1>8. CASE Tick \/ UNCHANGED vars
  <2>1. /\ UNCHANGED <<rec, pc, given, extra, period, pass, budget>>
        /\ now' \in Nat /\ pass.t <= now'
    BY <1>2, <1>8 DEF Tick, vars
  <2> QED
    BY <1>1, <1>2, <1>3, <1>4, <2>1, OtherHeld
<1> QED
  BY <1>1, <1>5, <1>6, <1>7, <1>8, RequestHeld DEF Next

LEMMA InitHeld == ASSUME Init PROVE UsageHeld
<1>1. /\ setting \in Settings /\ now = 1 /\ period \in PeriodType
      /\ PlanUpdates \in Nat /\ AdminResets \in Nat /\ MarkFaults \in Nat
      /\ FaultBudget \in Nat /\ LostAcks \in Nat
  BY SettingFacts DEF Init
<1>2. NoSub \in Row /\ NoRec \in RecType
  BY DEF NoSub, Row, NoRec, RecType
<1>3. /\ subs \in [Subs -> Row] /\ rec \in [Requests -> RecType] /\ pc \in [Requests -> Labels]
      /\ extra \in [Requests -> Nat] /\ given \in [Requests -> Nat]
  BY <1>2 DEF Init, Labels
<1>4. hist \in History
  BY DEF Init, History
<1>5. /\ budget \in Budget /\ budget.plan = PlanUpdates /\ budget.reset = AdminResets
      /\ budget.mark = MarkFaults
  BY <1>1 DEF Init, Budget
<1>6. pass \in PassType /\ pass.t = 0 /\ pass.rows = {} /\ pass.at = "idle"
  BY DEF Init, PassType
<1>7. UsageTyped
  BY <1>1, <1>3, <1>4, <1>5, <1>6 DEF UsageTyped
<1>8. Failed = 0
  BY <1>1, <1>5 DEF Failed
<1>9. ASSUME NEW r \in Requests PROVE Holder(r) /\ Owed(r)
  BY <1>8 DEF Init, Holder, Owed, NoRec
<1> QED
  BY <1>6, <1>7, <1>9 DEF UsageHeld, PassRows

\* RefundSubscriptionPreConsume gives a request back what it pre-consumed at
\* most once, and once more for every mark that failed after the usage was
\* changed, for any number of requests, subscriptions, attempts and faults.
THEOREM RefundsAreMadeOnce == Spec => []RefundedOnce
<1>1. Init => UsageHeld
  BY InitHeld
<1>2. UsageHeld /\ [Next]_vars => UsageHeld'
  BY NextHeld
<1>3. UsageHeld => RefundedOnce
  <2> SUFFICES ASSUME UsageHeld, NEW r \in Requests
               PROVE  given[r] <= rec[r].amount * (1 + MarkFaults - budget.mark)
    BY DEF RefundedOnce
  <2>1. MarkFaults \in Int /\ budget.mark \in Int /\ Owed(r)
    BY SettingFacts DEF UsageHeld, UsageTyped, Budget
  <2>2. 1 + MarkFaults - budget.mark = 1 + Failed
    BY <2>1 DEF Failed
  <2> QED
    BY <2>1, <2>2 DEF Owed
<1> QED
  BY <1>1, <1>2, <1>3, PTL DEF Spec

-----------------------------------------------------------------------------
(* Periods.                                                                *)

LEMMA TimesOrder ==
    ASSUME NEW l \in Nat, l > 0, NEW p \in Int, NEW q \in Int, l * p < l * q
    PROVE  p < q
<1> SUFFICES ASSUME q <= p PROVE FALSE
  OBVIOUS
<1>1. PICK d \in Nat : p = q + d
  OBVIOUS
<1>2. l * p = l * q + l * d /\ l * d \in Nat /\ l * q \in Int
  BY <1>1
<1> QED
  BY <1>2

LEMMA DivMod ==
    ASSUME NEW x \in Nat, NEW l \in Nat, l > 0
    PROVE  /\ x \div l \in Nat /\ x % l \in Nat /\ x % l < l
           /\ x = l * (x \div l) + (x % l)
<1>1. x \div l \in Int /\ x % l \in 0..(l - 1)
  OBVIOUS
<1>2. x = l * (x \div l) + (x % l)
  OBVIOUS
<1>3. PICK q \in Int, m \in 0..(l - 1) : q = x \div l /\ m = x % l /\ x = l * q + m
  BY <1>1, <1>2
<1>4. l * q \in Int /\ l * (q + 1) = l * q + l
  BY <1>3
<1>5. l * 0 < l * (q + 1)
  BY <1>3, <1>4
<1>6. 0 < q + 1
  BY <1>3, <1>5, TimesOrder
<1> QED
  BY <1>3, <1>6

\* x is in an earlier period than a later boundary.
LEMMA BoundaryIsLater ==
    ASSUME NEW x \in Nat, NEW b \in Nat, NEW l \in Nat, l > 0, x < b, b % l = 0
    PROVE  x \div l + 1 <= b \div l
<1>1. PICK p \in Nat, m \in Nat : p = x \div l /\ m < l /\ x = l * p + m
  BY DivMod
<1>2. PICK q \in Nat : q = b \div l /\ b = l * q
  BY DivMod
<1>3. l * p \in Nat /\ l * q \in Nat
  OBVIOUS
<1>4. l * p < l * q
  BY <1>1, <1>2, <1>3
<1>5. p < q
  BY <1>4, TimesOrder
<1> QED
  BY <1>1, <1>2, <1>5

LEMMA DivGrows ==
    ASSUME NEW x \in Nat, NEW y \in Nat, NEW l \in Nat, l > 0, x <= y
    PROVE  x \div l <= y \div l
<1>1. PICK p \in Nat, m \in Nat : p = x \div l /\ m < l /\ x = l * p + m
  BY DivMod
<1>2. PICK q \in Nat, k \in Nat : q = y \div l /\ k < l /\ y = l * q + k
  BY DivMod
<1>3. l * p \in Nat /\ l * q \in Nat /\ l * (q + 1) = l * q + l
  OBVIOUS
<1>4. l * p < l * (q + 1)
  BY <1>1, <1>2, <1>3
<1>5. p < q + 1
  BY <1>4, TimesOrder
<1> QED
  BY <1>1, <1>2, <1>5

LEMMA WholePeriod ==
    ASSUME NEW x \in Nat, NEW l \in Nat, l > 0, x > 0, x % l = 0
    PROVE  l <= x
<1>1. PICK q \in Nat : x = l * q
  BY DivMod
<1>2. q # 0
  BY <1>1
<1>3. PICK p \in Nat : q = p + 1
  BY <1>2
<1>4. l * q = l * p + l /\ l * p \in Nat
  BY <1>3
<1> QED
  BY <1>1, <1>4

LEMMA PeriodsFit ==
    ASSUME NEW n \in Int, NEW x \in Nat, NEW l \in Nat, l > 0, n * l <= x
    PROVE  n <= x \div l
<1>1. PICK q \in Nat, k \in Nat : q = x \div l /\ k < l /\ x = l * q + k
  BY DivMod
<1>2. n * l = l * n /\ l * n \in Int /\ l * (q + 1) = l * q + l /\ l * q \in Nat
  OBVIOUS
<1>3. l * n < l * (q + 1)
  BY <1>1, <1>2
<1>4. n < q + 1
  BY <1>3, TimesOrder
<1> QED
  BY <1>1, <1>4

-----------------------------------------------------------------------------
(* What is used in a period, and how often a period begins.                *)

\* What counts of the usage is in the row, and the row is within the plan.
Counts(s) ==
    /\ subs[s].status = "none" => /\ subs[s].used = 0 /\ hist.charged[s] = 0
                                  /\ hist.carried[s] = 0 /\ hist.resets[s] = 0
    /\ hist.charged[s] - hist.carried[s] <= subs[s].used
    /\ Total = 0 \/ subs[s].used <= Total

LEMMA CountsStays ==
    ASSUME UsageTyped, UsageTyped', RowsMove, setting' = setting,
           NEW s \in Subs, Counts(s)
    PROVE  Counts(s)'
<1>1. /\ subs[s].used \in Nat /\ subs'[s].used \in Nat
      /\ hist.charged[s] \in Int /\ hist.carried[s] \in Int /\ hist.resets[s] \in Int
      /\ hist'.charged[s] \in Int /\ hist'.carried[s] \in Int
      /\ Total \in Nat /\ Total' = Total
  BY SettingFacts DEF UsageTyped, Row, History, Total
<1>2. RowStep(s)
  BY DEF RowsMove
<1>3. CASE GoesOn(s)
  BY <1>1, <1>3 DEF GoesOn, Lasts, Counts
<1>4. CASE Restarts(s)
  BY <1>1, <1>4 DEF Restarts, Lasts, Counts
<1>5. CASE Begins(s)
  BY <1>1, <1>5 DEF Begins, Counts
<1> QED
  BY <1>2, <1>3, <1>4, <1>5 DEF RowStep

\* Nobody but time moves the schedule.
Steady == PlanUpdates = 0 /\ (AdminResets > 0 => ~MayAdvance)

\* The resets of a subscription are at different boundaries, up to the one its
\* current period began at.
InTime(s) ==
    Steady /\ subs[s].status # "none"
    => /\ subs[s].start > 0
       /\ subs[s].start <= Base(subs[s]) /\ Base(subs[s]) <= now
       /\ period.len = 0 => hist.resets[s] = 0
       /\ period.len > 0 /\ period.aligned
          => hist.resets[s] + subs[s].start \div period.len <= Base(subs[s]) \div period.len
       /\ period.len > 0 /\ ~period.aligned
          => hist.resets[s] * period.len <= Base(subs[s]) - subs[s].start

LEMMA InTimeStays ==
    ASSUME UsageTyped, UsageTyped', RowsMove, setting' = setting,
           Steady => period' = period, now <= now',
           NEW s \in Subs, Counts(s), InTime(s)
    PROVE  InTime(s)'
<1> SUFFICES ASSUME Steady', subs'[s].status # "none"
             PROVE  /\ subs'[s].start > 0
                    /\ subs'[s].start <= Base(subs'[s]) /\ Base(subs'[s]) <= now'
                    /\ period'.len = 0 => hist'.resets[s] = 0
                    /\ period'.len > 0 /\ period'.aligned
                       => hist'.resets[s] + subs'[s].start \div period'.len
                            <= Base(subs'[s]) \div period'.len
                    /\ period'.len > 0 /\ ~period'.aligned
                       => hist'.resets[s] * period'.len <= Base(subs'[s]) - subs'[s].start
  BY DEF InTime, Base
<1>1. Steady /\ period' = period
  BY DEF Steady, PlanUpdates, AdminResets, MayAdvance
<1>2. PICK u \in Row, v \in Row, l \in Nat, n \in Int, n1 \in Int :
         /\ u = subs[s] /\ v = subs'[s] /\ l = period.len
         /\ n = hist.resets[s] /\ n1 = hist'.resets[s]
  BY DEF UsageTyped, PeriodType, History
<1>3. /\ u.start \in Nat /\ v.start \in Nat /\ u.last \in Nat /\ v.last \in Nat
      /\ Base(u) \in Nat /\ Base(v) \in Nat /\ now \in Nat /\ now' \in Nat
  BY DEF UsageTyped, Row, Base
<1>4. ASSUME u.status # "none", v.start = u.start, Base(v) = Base(u), n1 = n
      PROVE  /\ v.start > 0 /\ v.start <= Base(v) /\ Base(v) <= now'
             /\ l = 0 => n1 = 0
             /\ l > 0 /\ period.aligned => n1 + v.start \div l <= Base(v) \div l
             /\ l > 0 /\ ~period.aligned => n1 * l <= Base(v) - v.start
  BY <1>1, <1>2, <1>3, <1>4 DEF InTime
<1>5. CASE GoesOn(s)
  <2>1. /\ v.start = u.start /\ u.status # "none" /\ n1 = n
        /\ v.last \in {u.last, Base(u)}
    BY <1>2, <1>5 DEF GoesOn, Lasts
  <2>2. u.start > 0
    BY <1>1, <1>2, <2>1 DEF InTime
  <2>3. Base(v) = Base(u)
    BY <1>3, <2>1, <2>2 DEF Base
  <2> QED
    BY <1>1, <1>2, <1>4, <2>1, <2>3
<1>6. CASE Begins(s)
  <2>1. n1 = 0 /\ v.start > 0 /\ v.start <= now /\ Base(v) = v.start
    BY <1>2, <1>3, <1>6 DEF Begins, Counts, Base
  <2>2. l > 0 => v.start \div l \in Int
    BY <1>3
  <2>3. n1 * l = 0
    BY <1>2, <2>1
  <2> QED
    BY <1>1, <1>2, <1>3, <2>1, <2>2, <2>3
<1>7. CASE Restarts(s)
  <2>1. v.start = u.start /\ u.status # "none"
    BY <1>2, <1>7 DEF Restarts, Lasts
  <2>2. CASE n1 = n /\ v.last = u.last
    <3>1. Base(v) = Base(u)
      BY <2>1, <2>2 DEF Base
    <3> QED
      BY <1>1, <1>2, <1>4, <2>1, <2>2, <3>1
  <2>3. CASE ~(n1 = n /\ v.last = u.last)
    <3>1. PICK t \in 1..now : n1 = n + 1 /\ v.last \in Due(u, t)
      BY <1>1, <1>2, <1>7, <2>3 DEF Restarts, Steady
    <3>2. /\ v.last \in (Base(u) + 1)..t /\ l > 0
          /\ period.aligned => v.last % l = 0
          /\ ~period.aligned => (v.last - Base(u)) % l = 0
      BY <1>2, <3>1 DEF Due, DueResets, Base
    <3>3. Base(v) = v.last /\ Base(u) < v.last /\ v.last <= now
      BY <1>3, <3>2 DEF Base
    <3>4. u.start > 0 /\ u.start <= Base(u)
      BY <1>1, <1>2, <2>1 DEF InTime
    <3>5. ASSUME period.aligned PROVE n1 + v.start \div l <= Base(v) \div l
      <4>1. Base(u) \div l + 1 <= v.last \div l
        BY <1>3, <3>2, <3>3, <3>5, BoundaryIsLater
      <4>2. n + u.start \div l <= Base(u) \div l
        BY <1>1, <1>2, <2>1, <3>2, <3>5 DEF InTime
      <4>3. u.start \div l \in Nat /\ Base(u) \div l \in Nat /\ v.last \div l \in Nat
        BY <1>3, <3>2, DivMod
      <4> QED
        BY <2>1, <3>1, <3>3, <4>1, <4>2, <4>3
    <3>6. ASSUME ~period.aligned PROVE n1 * l <= Base(v) - v.start
      <4>1. PICK x \in Nat : x = v.last - Base(u) /\ x > 0
        BY <1>3, <3>3
      <4>2. l <= x
        BY <3>2, <3>6, <4>1, WholePeriod
      <4>3. n * l <= Base(u) - u.start
        BY <1>1, <1>2, <2>1, <3>2, <3>6 DEF InTime
      <4>4. n1 * l = n * l + l /\ n * l \in Int
        BY <3>1
      <4> QED
        BY <1>3, <2>1, <3>3, <4>1, <4>2, <4>3, <4>4
    <3> QED
      BY <1>1, <1>2, <1>3, <2>1, <3>2, <3>3, <3>4, <3>5, <3>6
  <2> QED
    BY <2>2, <2>3
<1> QED
  BY <1>5, <1>6, <1>7 DEF RowsMove, RowStep

UsageInv == UsageHeld /\ \A s \in Subs : Counts(s) /\ InTime(s)

LEMMA UsageInvInit == ASSUME Init PROVE UsageInv
<1>1. UsageHeld /\ Total \in Nat
  BY InitHeld, SettingFacts DEF UsageHeld, UsageTyped
<1>2. ASSUME NEW s \in Subs PROVE Counts(s) /\ InTime(s)
  BY <1>1 DEF Init, NoSub, Counts, InTime
<1> QED
  BY <1>1, <1>2 DEF UsageInv

LEMMA UsageInvStays == ASSUME UsageInv, [Next]_vars PROVE UsageInv'
<1>1. UsageHeld' /\ RowsMove /\ setting' = setting /\ UsageTyped /\ UsageTyped'
  BY NextHeld DEF UsageInv, UsageHeld, Next, vars
<1>2. now \in Nat /\ budget \in Budget /\ budget.plan <= PlanUpdates /\ PlanUpdates \in Nat
  BY <1>1, SettingFacts DEF UsageTyped
<1>3. now <= now'
  <2>1. now' = now \/ now' = now + 1
    <3>1. ASSUME NEW r \in Requests, Request(r) \/ Refund(r) PROVE now' = now
      BY <3>1 DEF Request, PreConsume, Reserve, Settle, BeginRefund, Crash, Cleanup,
                  Refund, RefundDelta, RefundMark, RefundExtra
    <3>2. CASE Maintenance \/ Admin \/ PassFails
      BY <3>2 DEF Maintenance, BeginPass, ExpireDue, ListDue, ResetRow, EndBatch, PassFails,
                  Admin, Create, AdminInvalidate, AdminDelete, AdminReset, UpdatePlan
    <3>3. CASE Tick \/ UNCHANGED vars
      BY <3>3 DEF Tick, vars
    <3> QED
      BY <3>1, <3>2, <3>3 DEF Next
  <2> QED
    BY <1>2, <2>1
<1>4. Steady => period' = period
  <2>1. ASSUME NEW r \in Requests, Request(r) \/ Refund(r) PROVE period' = period
    BY <2>1 DEF Request, PreConsume, Reserve, Settle, BeginRefund, Crash, Cleanup,
                Refund, RefundDelta, RefundMark, RefundExtra
  <2>2. CASE Maintenance \/ PassFails \/ Tick \/ UNCHANGED vars
    BY <2>2 DEF Maintenance, BeginPass, ExpireDue, ListDue, ResetRow, EndBatch, PassFails,
                Tick, vars
  <2>3. CASE Admin
    <3>1. UpdatePlan => ~Steady
      BY <1>2 DEF UpdatePlan, Steady, Budget
    <3> QED
      BY <2>3, <3>1 DEF Admin, Create, AdminInvalidate, AdminDelete, AdminReset
  <2> QED
    BY <2>1, <2>2, <2>3 DEF Next
<1>5. ASSUME NEW s \in Subs PROVE Counts(s)' /\ InTime(s)'
  BY <1>1, <1>3, <1>4, CountsStays, InTimeStays DEF UsageInv
<1> QED
  BY <1>1, <1>5 DEF UsageInv

LEMMA UsageInvImplies == ASSUME UsageInv PROVE UsagePerPeriod
<1>1. UsageTyped /\ Total \in Nat /\ now \in Nat
  BY SettingFacts DEF UsageInv, UsageHeld, UsageTyped
<1>2. PeriodWithinPlan
  <2> SUFFICES ASSUME Total > 0, NEW s \in Subs
               PROVE  hist.charged[s] <= Total + hist.carried[s]
    BY DEF PeriodWithinPlan
  <2>1. subs[s].used \in Nat /\ hist.charged[s] \in Int /\ hist.carried[s] \in Int
    BY <1>1 DEF UsageTyped, Row, History
  <2> QED
    BY <1>1, <2>1 DEF UsageInv, Counts
<1>3. OneResetPerPeriod
  <2> SUFFICES ASSUME Steady, NEW s \in Subs
               PROVE  hist.resets[s] <= Boundaries(subs[s])
    BY DEF OneResetPerPeriod, Steady
  <2>1. PICK u \in Row, l \in Nat, n \in Int :
           u = subs[s] /\ l = period.len /\ n = hist.resets[s]
    BY <1>1 DEF UsageTyped, PeriodType, History
  <2>2. u.start \in Nat /\ Base(u) \in Nat
    BY DEF Row, Base
  <2>3. Counts(s) /\ InTime(s)
    BY DEF UsageInv
  <2>4. CASE u.status = "none" \/ l = 0
    BY <2>1, <2>3, <2>4 DEF Counts, InTime, Boundaries
  <2>5. CASE u.status # "none" /\ l # 0
    <3>1. /\ u.start <= Base(u) /\ Base(u) <= now /\ l > 0
          /\ period.aligned => n + u.start \div l <= Base(u) \div l
          /\ ~period.aligned => n * l <= Base(u) - u.start
      BY <2>1, <2>3, <2>5 DEF InTime
    <3>2. CASE period.aligned
      <4>1. Base(u) \div l <= now \div l
        BY <1>1, <2>2, <3>1, DivGrows
      <4>2. u.start \div l \in Nat /\ Base(u) \div l \in Nat /\ now \div l \in Nat
        BY <1>1, <2>2, <3>1, DivMod
      <4>3. Boundaries(u) = now \div l - u.start \div l
        BY <2>1, <2>5, <3>2 DEF Boundaries
      <4>4. n <= now \div l - u.start \div l
        BY <3>1, <3>2, <4>1, <4>2
      <4> QED
        BY <2>1, <4>3, <4>4
    <3>3. CASE ~period.aligned
      <4>1. PICK x \in Nat : x = now - u.start
        BY <1>1, <2>2, <3>1
      <4>2. n * l <= x
        <5>1. n * l \in Int
          OBVIOUS
        <5> QED
          BY <1>1, <2>2, <3>1, <3>3, <4>1, <5>1
      <4>3. n <= x \div l
        BY <3>1, <4>2, PeriodsFit
      <4> QED
        BY <2>1, <2>5, <3>3, <4>1, <4>3 DEF Boundaries
    <3> QED
      BY <3>2, <3>3
  <2> QED
    BY <2>4, <2>5
<1> QED
  BY <1>2, <1>3 DEF UsagePerPeriod

LEMMA MCStepsUsage == ASSUME [MCNext]_<<part, vars, orderVars>> PROVE [Next]_vars
  BY DEF MCNext

\* However pre-consumptions, settlements, refunds, resets by the maintenance
\* pass and resets by administrators interleave, requests take no more in a
\* period than the plan allows and what refunds of earlier periods were booked
\* on it; and where the schedule is left alone, a period begins at most once
\* per boundary that has passed.
THEOREM UsageIsPerPeriod == MCSpec => []UsagePerPeriod
<1>1. MCInit => UsageInv
  BY UsageInvInit DEF MCInit
<1>2. UsageInv /\ [MCNext]_<<part, vars, orderVars>> => UsageInv'
  BY UsageInvStays, MCStepsUsage
<1>3. UsageInv => UsagePerPeriod
  BY UsageInvImplies
<1> QED
  BY <1>1, <1>2, <1>3, PTL DEF MCSpec

-----------------------------------------------------------------------------
(* Orders and purchases: settings and types.                               *)

LEMMA TermsFacts ==
    ASSUME terms \in OrderSettings
    PROVE  /\ Groups!Plans # {} /\ Groups!NoSub.plan \in Groups!Plans
           /\ \A p \in Groups!Plans :
                 /\ Price[p] \in Nat /\ terms.limit[p] \in Nat /\ terms.term[p] \in Nat
           /\ Groups!InitQuota \in Nat /\ Groups!LastTime \in Nat
           /\ Groups!FaultBudget \in Nat /\ Groups!AdminOps \in Nat
           /\ Groups!Snapshots \in BOOLEAN
           /\ MaxSubs \in Nat /\ Groups!Ids = 1..MaxSubs
           /\ BaseGroup # ""
<1>1. Groups!Plans # {}
  BY OrdersAssumption DEF Groups!Plans
<1>2. Groups!NoSub.plan \in Groups!Plans
  BY <1>1 DEF Groups!NoSub
<1> QED
  BY <1>1, <1>2, OrdersAssumption
  DEF Groups!Plans, Groups!Limit, Groups!Term, Groups!InitQuota,
      Groups!LastTime, Groups!FaultBudget, Groups!AdminOps, Groups!Snapshots, Groups!Ids

\* The groups a user may be in, and "".
Names == {"", BaseGroup} \cup {Upgrade[p] : p \in Groups!Plans}
                         \cup {terms.downgrade[p] : p \in Groups!Plans}

HeldRow == [status : {"none", "active", "expired", "cancelled", "deleted"},
            plan : Groups!Plans, end : Int, prev : Names]

OrderRow == [status : {"none", "pending", "success", "expired", "failed"},
             plan : Groups!Plans, link : BOOLEAN]

OrdersTyped ==
    /\ terms \in OrderSettings
    /\ order \in [Orders -> OrderRow]
    /\ paid \subseteq Orders
    /\ held \in [Groups!Ids -> HeldRow]
    /\ group \in Names
    /\ quota \in Int
    /\ clock \in Int
    /\ buyer \in [Buyers -> [at : {"idle", "read", "snapshot"}, plan : Groups!Plans,
                             count : Int]]
    /\ admin \in [at : {"idle", "checked"}, sub : Int, target : Names]
    /\ job \in [at : {"idle", "read", "marked"}, now : Int, due : SUBSET Groups!Ids,
                last : Int]
    /\ left \in [fault : Int, admin : Int]
    /\ made \in [Orders -> Int]

\* The ids in use are the first ones.
Used == {i \in Groups!Ids : held[i].status # "none"}

Dense == \E k \in 0..MaxSubs : Used = 1..k

\* A row that is about to be ended is there, and nobody else ends it.
Apart ==
    /\ admin.at = "idle" => admin = Groups!NoAdmin
    /\ admin.at = "checked" => admin.sub \in Groups!Rows /\ admin.sub \notin job.due
    /\ job.due \subseteq Groups!Rows
    /\ job.at # "marked" => job.due = {} /\ job.last = 0
    /\ job.at = "idle" => job = Groups!NoJob
    /\ job.last # 0 => job.last \in Used /\ ~Groups!Ungrouped(held[job.last].plan)

OrdersHeld == OrdersTyped /\ Dense /\ Apart

-----------------------------------------------------------------------------
(* What a step does to the subscriptions.                                  *)

\* No subscription is made.
NoneMade ==
    \A i \in Groups!Ids :
        /\ held'[i].plan = held[i].plan
        /\ held'[i].status = "none" <=> held[i].status = "none"
        /\ held'[i].status \notin {"none", "deleted"} => held[i].status \notin {"none", "deleted"}

\* One of plan p is.
OneMade(p) ==
    /\ p \in Groups!Plans
    /\ \E i \in Groups!Ids :
          /\ held[i].status = "none" /\ Used' = Used \cup {i}
          /\ Dense'
          /\ \E w \in HeldRow :
                /\ held' = [held EXCEPT ![i] = w]
                /\ w.plan = p /\ w.status = "active" /\ w.end = clock + terms.term[p]
    /\ LET raises == Upgrade[p] # "" /\ group # Upgrade[p]
       IN  group' = IF raises THEN Upgrade[p] ELSE group

LEMMA SameCardinality == ASSUME NEW S PROVE Groups!Cardinality(S) = Cardinality(S)
  BY DEF Groups!Cardinality, Cardinality

LEMMA UsedFacts ==
    ASSUME OrdersHeld
    PROVE  /\ MaxSubs \in Nat /\ Groups!Ids = 1..MaxSubs
           /\ \E k \in 0..MaxSubs : Used = 1..k /\ Groups!NextId = k + 1
<1>1. MaxSubs \in Nat /\ Groups!Ids = 1..MaxSubs
  BY TermsFacts DEF OrdersHeld, OrdersTyped
<1>2. PICK k \in 0..MaxSubs : Used = 1..k
  BY DEF OrdersHeld, Dense
<1>3. Cardinality(Used) = k
  BY <1>1, <1>2, FS_Interval
<1>4. Groups!NextId = 1 + Groups!Cardinality(Used)
  BY DEF Groups!NextId, Used
<1> QED
  BY <1>1, <1>2, <1>3, <1>4, SameCardinality

LEMMA CreateMakesOne ==
    ASSUME OrdersHeld, NEW p \in Groups!Plans, Groups!Create(p), terms' = terms
    PROVE  OneMade(p)
<1>1. PICK k \in 0..MaxSubs : Used = 1..k /\ Groups!NextId = k + 1
  BY UsedFacts
<1>2. /\ MaxSubs \in Nat /\ Groups!Ids = 1..MaxSubs /\ k + 1 \in Groups!Ids
      /\ Groups!Ids' = Groups!Ids
  BY <1>1, UsedFacts DEF Groups!Create, Groups!Ids
<1>3. held[k + 1].status = "none"
  BY <1>1, <1>2 DEF Used
<1>4. /\ held \in [Groups!Ids -> HeldRow] /\ clock \in Int /\ terms.term[p] \in Nat
      /\ group \in Names /\ "" \in Names
  BY TermsFacts DEF OrdersHeld, OrdersTyped, Names
<1>4a. PICK e \in Int : e = clock + terms.term[p]
  <2>1. clock \in Int /\ terms.term[p] \in Nat
    BY <1>4
  <2> QED
    BY <2>1
<1>4b. PICK g \in Names : g = IF Upgrade[p] # "" /\ group # Upgrade[p] THEN group ELSE ""
  BY <1>4
<1>5. PICK w : w = [status |-> "active", plan |-> p, end |-> e, prev |-> g]
  OBVIOUS
<1>6. w \in HeldRow /\ w.plan = p /\ w.status = "active" /\ w.end = clock + terms.term[p]
  BY <1>5, <1>4a DEF HeldRow
<1>7. held' = [held EXCEPT ![k + 1] = w]
  BY <1>1, <1>5, <1>4a, <1>4b DEF Groups!Create, Groups!Term
<1>8. Used' = Used \cup {k + 1}
  <2>1. \A i \in Groups!Ids : held'[i].status # "none" <=> i = k + 1 \/ held[i].status # "none"
    BY <1>2, <1>4, <1>6, <1>7
  <2> QED
    BY <1>2, <2>1 DEF Used
<1>9. Dense'
  <2>1. k \in Nat /\ k + 1 \in 0..MaxSubs
    BY <1>2
  <2>2. (1..k) \cup {k + 1} = 1..(k + 1)
    BY <2>1
  <2>3. Used' = 1..(k + 1)
    BY <1>1, <1>8, <2>2
  <2> QED
    BY <2>1, <2>3 DEF Dense
<1>10. group' = IF Upgrade[p] # "" /\ group # Upgrade[p] THEN Upgrade[p] ELSE group
  BY DEF Groups!Create
<1> QED
  BY <1>2, <1>3, <1>6, <1>7, <1>8, <1>9, <1>10 DEF OneMade

-----------------------------------------------------------------------------
(* Orders, purchases and budgets.                                          *)

OrdersRest ==
    /\ Groups!FulfilledOnce
    /\ quota >= 0
    /\ \A b \in Buyers : buyer[b].at = "snapshot" => Groups!Snapshots
    /\ left.admin <= Groups!AdminOps
    /\ clock <= Groups!LastTime

\* An order changes its status; it is completed once, from pending.
LEMMA OrderStays ==
    ASSUME OrdersTyped, Groups!FulfilledOnce, terms' = terms, NEW o \in Orders, NEW w \in OrderRow,
           order' = [order EXCEPT ![o] = w],
           \/ w.status # "success" /\ order[o].status # "success" /\ made' = made
           \/ w.status = "success" /\ order[o].status # "success"
              /\ made' = [made EXCEPT ![o] = @ + 1]
    PROVE  /\ order' \in [Orders -> OrderRow] /\ made' \in [Orders -> Int]
           /\ Groups!FulfilledOnce'
<1>1. order \in [Orders -> OrderRow] /\ made \in [Orders -> Int]
  BY DEF OrdersTyped
<1>2. \A q \in Orders : order'[q] = IF q = o THEN w ELSE order[q]
  BY <1>1
<1>3. made[o] = 0
  BY DEF Groups!FulfilledOnce
<1>4. \A q \in Orders : made'[q] = IF q = o /\ w.status = "success" THEN 1 ELSE made[q]
  BY <1>1, <1>3
<1>5. \A q \in Orders : made'[q] = IF order'[q].status = "success" THEN 1 ELSE 0
  BY <1>2, <1>3, <1>4 DEF Groups!FulfilledOnce
<1> QED
  BY <1>1, <1>5 DEF Groups!FulfilledOnce

LEMMA GatewayKeeps ==
    ASSUME OrdersTyped, Groups!FulfilledOnce, terms' = terms, NEW o \in Orders, Groups!Gateway(o)
    PROVE  /\ order' \in [Orders -> OrderRow] /\ made' \in [Orders -> Int]
           /\ paid' \subseteq Orders /\ Groups!FulfilledOnce'
<1>1. /\ order \in [Orders -> OrderRow] /\ order[o] \in OrderRow /\ paid \subseteq Orders
      /\ made \in [Orders -> Int]
  BY DEF OrdersTyped
<1>2. ASSUME NEW p \in Groups!Plans, Groups!RequestOrder(o, p)
      PROVE  /\ order' \in [Orders -> OrderRow] /\ made' \in [Orders -> Int]
             /\ paid' \subseteq Orders /\ Groups!FulfilledOnce'
  <2>1. PICK w : w = [order[o] EXCEPT !.status = "pending", !.plan = p]
    OBVIOUS
  <2>2. w \in OrderRow /\ w.status = "pending"
    BY <1>1, <2>1 DEF OrderRow
  <2>3. /\ order' = [order EXCEPT ![o] = w] /\ made' = made /\ paid' = paid
        /\ order[o].status = "none"
    BY <1>1, <1>2, <2>1 DEF Groups!RequestOrder, OrderRow
  <2> QED
    BY <1>1, <2>2, <2>3, OrderStays
<1>3. ASSUME Groups!LinkCreated(o)
      PROVE  /\ order' \in [Orders -> OrderRow] /\ made' \in [Orders -> Int]
             /\ paid' \subseteq Orders /\ Groups!FulfilledOnce'
  <2>1. PICK w : w = [order[o] EXCEPT !.link = TRUE]
    OBVIOUS
  <2>2. w \in OrderRow /\ w.status = order[o].status
    BY <1>1, <2>1 DEF OrderRow
  <2>3. /\ order' = [order EXCEPT ![o] = w] /\ made' = made /\ paid' = paid
        /\ order[o].status = "pending"
    BY <1>1, <1>3, <2>1 DEF Groups!LinkCreated, OrderRow
  <2> QED
    BY <1>1, <2>2, <2>3, OrderStays
<1>4. ASSUME Groups!LinkFailed(o) \/ Groups!ExpireSubscriptionOrder(o)
      PROVE  /\ order' \in [Orders -> OrderRow] /\ made' \in [Orders -> Int]
             /\ paid' \subseteq Orders /\ Groups!FulfilledOnce'
  <2>1. PICK s \in {"expired", "failed"} : order' = [order EXCEPT ![o].status = s]
    BY <1>4 DEF Groups!LinkFailed, Groups!ExpireSubscriptionOrder
  <2>2. PICK w : w = [order[o] EXCEPT !.status = s]
    OBVIOUS
  <2>3. w \in OrderRow /\ w.status = s
    BY <1>1, <2>2 DEF OrderRow
  <2>4. /\ order' = [order EXCEPT ![o] = w] /\ made' = made /\ paid' = paid
        /\ order[o].status = "pending"
    BY <1>1, <1>4, <2>1, <2>2 DEF Groups!LinkFailed, Groups!ExpireSubscriptionOrder, OrderRow
  <2> QED
    BY <1>1, <2>3, <2>4, OrderStays
<1>5. ASSUME Groups!Pay(o)
      PROVE  /\ order' \in [Orders -> OrderRow] /\ made' \in [Orders -> Int]
             /\ paid' \subseteq Orders /\ Groups!FulfilledOnce'
  BY <1>1, <1>5 DEF Groups!Pay, Groups!FulfilledOnce
<1>6. ASSUME Groups!CompleteSubscriptionOrder(o)
      PROVE  /\ order' \in [Orders -> OrderRow] /\ made' \in [Orders -> Int]
             /\ paid' \subseteq Orders /\ Groups!FulfilledOnce'
  <2>1. PICK w : w = [order[o] EXCEPT !.status = "success"]
    OBVIOUS
  <2>2. w \in OrderRow /\ w.status = "success"
    BY <1>1, <2>1 DEF OrderRow
  <2>3. /\ order' = [order EXCEPT ![o] = w] /\ made' = [made EXCEPT ![o] = @ + 1]
        /\ paid' = paid /\ order[o].status = "pending"
    BY <1>1, <1>6, <2>1 DEF Groups!CompleteSubscriptionOrder, Groups!Completable, OrderRow
  <2> QED
    BY <1>1, <2>2, <2>3, OrderStays
<1> QED
  BY <1>2, <1>3, <1>4, <1>5, <1>6 DEF Groups!Gateway

\* The rows of a plan, which the limit counts.
OfPlan(p) == {i \in Groups!Rows : held[i].plan = p}

LEMMA CountFacts ==
    ASSUME OrdersTyped, NEW p
    PROVE  /\ IsFiniteSet(OfPlan(p)) /\ Cardinality(OfPlan(p)) \in Nat
           /\ Groups!CountByPlan(p) = Cardinality(OfPlan(p))
<1>1. IsFiniteSet(Groups!Ids)
  <2>1. MaxSubs \in Nat /\ Groups!Ids = 1..MaxSubs
    BY TermsFacts DEF OrdersTyped
  <2> QED
    BY <2>1, FS_Interval
<1>2. OfPlan(p) \subseteq Groups!Ids
  BY DEF OfPlan, Groups!Rows
<1>3. IsFiniteSet(OfPlan(p))
  BY <1>1, <1>2, FS_Subset
<1>4. Groups!CountByPlan(p) = Groups!Cardinality(OfPlan(p))
  BY DEF Groups!CountByPlan, OfPlan
<1> QED
  BY <1>3, <1>4, SameCardinality, FS_CardinalityType

LEMMA BuyerKeeps ==
    ASSUME OrdersTyped, OrdersRest, terms' = terms, NEW b \in Buyers,
           Groups!PurchaseCommits(b) \/ \E p \in Groups!Plans : Groups!PurchaseReads(b, p)
    PROVE  /\ buyer' \in [Buyers -> [at : {"idle", "read", "snapshot"}, plan : Groups!Plans,
                                     count : Int]]
           /\ \A c \in Buyers : buyer'[c].at = "snapshot" => Groups!Snapshots
           /\ quota' \in Int /\ quota' >= 0
<1>1. /\ buyer \in [Buyers -> [at : {"idle", "read", "snapshot"}, plan : Groups!Plans,
                               count : Int]]
      /\ buyer[b].plan \in Groups!Plans /\ quota \in Int /\ quota >= 0
      /\ Price[buyer[b].plan] \in Nat
      /\ \A c \in Buyers : buyer[c].at = "snapshot" => Groups!Snapshots
  BY TermsFacts DEF OrdersTyped, OrdersRest
<1>2. CASE Groups!PurchaseCommits(b)
  <2>1. PICK n : n = Groups!NoBuyer
    OBVIOUS
  <2>2. /\ n \in [at : {"idle", "read", "snapshot"}, plan : Groups!Plans, count : Int]
        /\ n.at = "idle"
    <3>1. Groups!NoSub.plan \in Groups!Plans
      BY TermsFacts DEF OrdersTyped
    <3> QED
      BY <2>1, <3>1 DEF Groups!NoBuyer
  <2>3. buyer' = [buyer EXCEPT ![b] = n]
    BY <1>2, <2>1 DEF Groups!PurchaseCommits
  <2>4. \/ quota' = quota
        \/ quota >= Price[buyer[b].plan] /\ quota' = quota - Price[buyer[b].plan]
    BY <1>2 DEF Groups!PurchaseCommits, Groups!Affordable
  <2>5. quota' \in Int /\ quota' >= 0
    BY <1>1, <2>4
  <2> QED
    BY <1>1, <2>2, <2>3, <2>5
<1>3. ASSUME NEW p \in Groups!Plans, Groups!PurchaseReads(b, p)
      PROVE  /\ buyer' \in [Buyers -> [at : {"idle", "read", "snapshot"}, plan : Groups!Plans,
                                       count : Int]]
             /\ \A c \in Buyers : buyer'[c].at = "snapshot" => Groups!Snapshots
             /\ quota' = quota
  <2>1. Groups!CountByPlan(p) \in Int
    BY CountFacts
  <2>2. PICK a \in {"read", "snapshot"} :
           /\ buyer' = [buyer EXCEPT ![b] = [at |-> a, plan |-> p,
                                             count |-> Groups!CountByPlan(p)]]
           /\ a = "snapshot" => Groups!Snapshots
    BY <1>3 DEF Groups!PurchaseReads
  <2>3. PICK n : n = [at |-> a, plan |-> p, count |-> Groups!CountByPlan(p)]
    OBVIOUS
  <2>4. n \in [at : {"idle", "read", "snapshot"}, plan : Groups!Plans, count : Int] /\ n.at = a
    BY <2>1, <2>3
  <2>5. buyer' = [buyer EXCEPT ![b] = n] /\ quota' = quota
    BY <1>3, <2>2, <2>3 DEF Groups!PurchaseReads
  <2> QED
    BY <1>1, <2>2, <2>4, <2>5
<1> QED
  BY <1>1, <1>2, <1>3

\* What no other step touches.
LEMMA RestKeeps ==
    ASSUME OrdersTyped, OrdersRest, Groups!Next
    PROVE  /\ terms' = terms /\ OrdersRest'
           /\ order' \in [Orders -> OrderRow] /\ made' \in [Orders -> Int]
           /\ paid' \subseteq Orders
           /\ buyer' \in [Buyers -> [at : {"idle", "read", "snapshot"}, plan : Groups!Plans,
                                     count : Int]]
           /\ quota' \in Int /\ left' \in [fault : Int, admin : Int]
           /\ clock' \in Int /\ clock <= clock'
<1>1. /\ terms' = terms /\ Groups!Snapshots' = Groups!Snapshots
      /\ Groups!AdminOps' = Groups!AdminOps /\ Groups!LastTime' = Groups!LastTime
  BY DEF Groups!Next, Groups!Snapshots, Groups!AdminOps, Groups!LastTime
<1>2. /\ order \in [Orders -> OrderRow] /\ made \in [Orders -> Int] /\ paid \subseteq Orders
      /\ buyer \in [Buyers -> [at : {"idle", "read", "snapshot"}, plan : Groups!Plans,
                               count : Int]]
      /\ quota \in Int /\ left \in [fault : Int, admin : Int] /\ clock \in Int
      /\ Groups!AdminOps \in Nat /\ Groups!LastTime \in Nat /\ Groups!FulfilledOnce
  BY TermsFacts DEF OrdersTyped, OrdersRest
<1>3. /\ order' \in [Orders -> OrderRow] /\ made' \in [Orders -> Int]
      /\ paid' \subseteq Orders /\ Groups!FulfilledOnce'
  <2>1. CASE UNCHANGED <<order, made, paid>>
    BY <1>2, <2>1 DEF Groups!FulfilledOnce
  <2>2. ASSUME NEW o \in Orders, Groups!Gateway(o)
        PROVE  /\ order' \in [Orders -> OrderRow] /\ made' \in [Orders -> Int]
               /\ paid' \subseteq Orders /\ Groups!FulfilledOnce'
    BY <1>1, <1>2, <2>2, GatewayKeeps
  <2> QED
    BY <2>1, <2>2
    DEF Groups!Next, Groups!PurchaseReads, Groups!PurchaseCommits, Groups!AdminBindSubscription,
        Groups!AdminChecks, Groups!AdminCommits, Groups!ExpireReads, Groups!ExpireMarks,
        Groups!ExpireCommits, Groups!Tick
<1>4. /\ buyer' \in [Buyers -> [at : {"idle", "read", "snapshot"}, plan : Groups!Plans,
                                count : Int]]
      /\ \A c \in Buyers : buyer'[c].at = "snapshot" => Groups!Snapshots
      /\ quota' \in Int /\ quota' >= 0
  <2>1. CASE UNCHANGED <<buyer, quota>>
    BY <1>2, <2>1 DEF OrdersRest
  <2>2. ASSUME NEW o \in Orders, Groups!Gateway(o) PROVE UNCHANGED <<buyer, quota>>
    BY <2>2 DEF Groups!Gateway, Groups!RequestOrder, Groups!LinkCreated, Groups!LinkFailed,
                Groups!Pay, Groups!ExpireSubscriptionOrder, Groups!CompleteSubscriptionOrder
  <2>3. \/ UNCHANGED <<buyer, quota>>
        \/ \E b \in Buyers :
              Groups!PurchaseCommits(b) \/ \E p \in Groups!Plans : Groups!PurchaseReads(b, p)
    BY <2>2
    DEF Groups!Next, Groups!AdminBindSubscription, Groups!AdminChecks, Groups!AdminCommits,
        Groups!ExpireReads, Groups!ExpireMarks, Groups!ExpireCommits, Groups!Tick
  <2> QED
    BY <1>1, <2>1, <2>3, BuyerKeeps
<1>5. left' \in [fault : Int, admin : Int] /\ left'.admin <= left.admin
  <2>1. ASSUME NEW o \in Orders, Groups!Gateway(o) PROVE left' = left
    BY <2>1 DEF Groups!Gateway, Groups!RequestOrder, Groups!LinkCreated, Groups!LinkFailed,
                Groups!Pay, Groups!ExpireSubscriptionOrder, Groups!CompleteSubscriptionOrder
  <2>2. \/ left' = left \/ left' = [left EXCEPT !.fault = @ - 1]
        \/ left' = [left EXCEPT !.admin = @ - 1]
    BY <2>1
    DEF Groups!Next, Groups!PurchaseReads, Groups!PurchaseCommits, Groups!AdminBindSubscription,
        Groups!AdminChecks, Groups!AdminCommits, Groups!ExpireReads, Groups!ExpireMarks,
        Groups!ExpireCommits, Groups!Tick, Groups!Fault, Groups!AdminOp
  <2> QED
    BY <1>2, <2>2
<1>6. clock' \in Int /\ clock <= clock' /\ clock' <= Groups!LastTime
  <2>1. ASSUME NEW o \in Orders, Groups!Gateway(o) PROVE clock' = clock
    BY <2>1 DEF Groups!Gateway, Groups!RequestOrder, Groups!LinkCreated, Groups!LinkFailed,
                Groups!Pay, Groups!ExpireSubscriptionOrder, Groups!CompleteSubscriptionOrder
  <2>2. clock' = clock \/ (clock < Groups!LastTime /\ clock' = clock + 1)
    BY <2>1
    DEF Groups!Next, Groups!PurchaseReads, Groups!PurchaseCommits, Groups!AdminBindSubscription,
        Groups!AdminChecks, Groups!AdminCommits, Groups!ExpireReads, Groups!ExpireMarks,
        Groups!ExpireCommits, Groups!Tick
  <2> QED
    BY <1>2, <2>2 DEF OrdersRest
<1>7. left'.admin <= Groups!AdminOps
  BY <1>2, <1>5 DEF OrdersRest
<1> QED
  BY <1>1, <1>3, <1>4, <1>5, <1>6, <1>7 DEF OrdersRest

-----------------------------------------------------------------------------
(* The steps, as far as subscriptions and the group are concerned.         *)

MadeOne(p) ==
    /\ OneMade(p)
    /\ Groups!Snapshots \/ Groups!BelowLimit(p, Groups!CountByPlan(p))
    /\ Groups!UserFree
    /\ UNCHANGED <<admin, job>>

AdminFails ==
    /\ admin.at = "checked" /\ admin' = Groups!NoAdmin
    /\ UNCHANGED <<held, group, job>>

AdminEnds ==
    /\ admin.at = "checked" /\ admin' = Groups!NoAdmin
    /\ \E w \in HeldRow : /\ held' = [held EXCEPT ![admin.sub] = w]
                          /\ w.plan = held[admin.sub].plan
                          /\ w.status \in {"cancelled", "deleted"}
    /\ group' = IF admin.target = "" THEN group ELSE admin.target
    /\ UNCHANGED job

JobFails ==
    /\ job.at = "marked" /\ job' = Groups!NoJob
    /\ UNCHANGED <<held, group, admin>>

JobEnds ==
    /\ job.at = "marked" /\ job' = Groups!NoJob
    /\ job.last # 0 => Groups!UserFree
    /\ held' = [i \in Groups!Ids |->
                  IF i \in job.due THEN [held[i] EXCEPT !.status = "expired"] ELSE held[i]]
    /\ group' = IF job.last = 0 THEN group
                ELSE IF Groups!RevertTo(job.last) = "" THEN group
                ELSE Groups!RevertTo(job.last)
    /\ UNCHANGED admin

OrderStep ==
    \/ UNCHANGED <<held, group, admin, job>>
    \/ \E p \in Groups!Plans : MadeOne(p)
    \/ \E i \in Groups!Ids : Groups!AdminChecks(i)
    \/ AdminFails \/ AdminEnds
    \/ Groups!ExpireReads \/ Groups!ExpireMarks
    \/ JobFails \/ JobEnds

LEMMA NextOrderStep ==
    ASSUME OrdersHeld, OrdersRest, Groups!Next PROVE OrderStep
<1>1. terms' = terms /\ OrdersTyped /\ Apart
  BY DEF Groups!Next, OrdersHeld
<1>2. ASSUME NEW o \in Orders, Groups!Gateway(o) PROVE OrderStep
  <2>1. CASE Groups!CompleteSubscriptionOrder(o)
    <3>1. order[o].plan \in Groups!Plans
      BY <1>1 DEF OrdersTyped, OrderRow
    <3>2. OneMade(order[o].plan)
      BY <1>1, <2>1, <3>1, CreateMakesOne DEF Groups!CompleteSubscriptionOrder
    <3> QED
      BY <2>1, <3>1, <3>2 DEF Groups!CompleteSubscriptionOrder, OrderStep, MadeOne
  <2>2. CASE ~Groups!CompleteSubscriptionOrder(o)
    BY <1>2, <2>2 DEF Groups!Gateway, Groups!RequestOrder, Groups!LinkCreated,
                      Groups!LinkFailed, Groups!Pay, Groups!ExpireSubscriptionOrder, OrderStep
  <2> QED
    BY <2>1, <2>2
<1>3. ASSUME NEW b \in Buyers, Groups!PurchaseCommits(b) PROVE OrderStep
  <2>1. buyer[b].plan \in Groups!Plans
    BY <1>1 DEF OrdersTyped
  <2>2. CASE UNCHANGED <<held, group>>
    BY <1>3, <2>2 DEF Groups!PurchaseCommits, OrderStep
  <2>3. CASE ~UNCHANGED <<held, group>>
    <3>1. /\ Groups!Create(buyer[b].plan) /\ Groups!UserFree /\ UNCHANGED <<admin, job>>
          /\ Groups!BelowLimit(buyer[b].plan, Groups!Counted(b))
      BY <1>3, <2>3 DEF Groups!PurchaseCommits
    <3>2. OneMade(buyer[b].plan)
      BY <1>1, <2>1, <3>1, CreateMakesOne
    <3>3. Groups!Snapshots \/ Groups!Counted(b) = Groups!CountByPlan(buyer[b].plan)
      BY DEF Groups!Counted, OrdersRest
    <3>4. MadeOne(buyer[b].plan)
      BY <3>1, <3>2, <3>3 DEF MadeOne
    <3> QED
      BY <2>1, <3>4 DEF OrderStep
  <2> QED
    BY <2>2, <2>3
<1>4. ASSUME NEW b \in Buyers, NEW p \in Groups!Plans, Groups!PurchaseReads(b, p)
      PROVE  OrderStep
  BY <1>4 DEF Groups!PurchaseReads, OrderStep
<1>5. ASSUME NEW p \in Groups!Plans, Groups!AdminBindSubscription(p) PROVE OrderStep
  <2>1. OneMade(p)
    BY <1>1, <1>5, CreateMakesOne DEF Groups!AdminBindSubscription
  <2> QED
    BY <1>5, <2>1 DEF Groups!AdminBindSubscription, OrderStep, MadeOne
<1>6. CASE Groups!AdminCommits
  <2>1. CASE UNCHANGED <<held, group>>
    BY <1>6, <2>1 DEF Groups!AdminCommits, OrderStep, AdminFails
  <2>2. CASE ~UNCHANGED <<held, group>>
    <3>1. PICK i \in Groups!Ids : i = admin.sub
      BY <1>1, <1>6 DEF Groups!AdminCommits, Apart, Groups!Rows
    <3>2. held[i] \in HeldRow /\ held \in [Groups!Ids -> HeldRow] /\ clock \in Int
      BY <1>1 DEF OrdersTyped
    <3>3. PICK w \in {[held[i] EXCEPT !.status = "cancelled", !.end = clock],
                      [held[i] EXCEPT !.status = "deleted"]} :
             held' = [held EXCEPT ![i] = w]
      BY <1>6, <2>2, <3>1 DEF Groups!AdminCommits
    <3>4. w \in HeldRow /\ w.plan = held[i].plan /\ w.status \in {"cancelled", "deleted"}
      <4>1. CASE w = [held[i] EXCEPT !.status = "cancelled", !.end = clock]
        <5>1. w \in HeldRow
          BY <3>2, <4>1 DEF HeldRow
        <5>2. w.plan = held[i].plan /\ w.status = "cancelled"
          BY <3>2, <4>1 DEF HeldRow
        <5> QED
          BY <5>1, <5>2
      <4>2. CASE w = [held[i] EXCEPT !.status = "deleted"]
        BY <3>2, <4>2 DEF HeldRow
      <4> QED
        BY <3>3, <4>1, <4>2
    <3>5. /\ admin.at = "checked" /\ admin' = Groups!NoAdmin /\ job' = job
          /\ group' = IF admin.target = "" THEN group ELSE admin.target
      BY <1>6, <2>2 DEF Groups!AdminCommits
    <3> QED
      BY <3>1, <3>3, <3>4, <3>5 DEF OrderStep, AdminEnds
  <2> QED
    BY <2>1, <2>2
<1>7. CASE Groups!ExpireCommits
  BY <1>7 DEF Groups!ExpireCommits, OrderStep, JobFails, JobEnds
<1>8. CASE Groups!Tick
  BY <1>8 DEF Groups!Tick, OrderStep
<1> QED
  BY <1>2, <1>3, <1>4, <1>5, <1>6, <1>7, <1>8 DEF Groups!Next, OrderStep

\* A finite set of ids has a last one, by an end and the id.
LEMMA LastExists ==
    ASSUME NEW S, IsFiniteSet(S), S # {}, S \subseteq Int, NEW e \in [S -> Int]
    PROVE  \E i \in S : \A j \in S : e[j] < e[i] \/ (e[j] = e[i] /\ j <= i)
<1> DEFINE After(i) == {j \in S : ~(e[j] < e[i] \/ (e[j] = e[i] /\ j <= i))}
           T == {After(i) : i \in S}
<1>1. T \subseteq SUBSET S /\ T # {}
  OBVIOUS
<1>2. IsWellFoundedOn(StrictSubsetOrdering(S), SUBSET S)
  BY FS_StrictSubsetOrderingWellFounded, FS_FiniteSubsetsOfFinite
<1>3. PICK x \in T : \A y \in T : ~(<<y, x>> \in StrictSubsetOrdering(S))
  <2> HIDE DEF T
  <2> QED
    BY <1>1, <1>2, WFMin
<1>4. PICK i \in S : x = After(i)
  OBVIOUS
<1>5. ASSUME NEW j \in S, j \in After(i) PROVE FALSE
  <2>1. ASSUME NEW k \in After(j) PROVE k \in After(i)
    BY <1>5, <2>1
  <2>2. j \notin After(j)
    OBVIOUS
  <2>3. After(j) \subseteq After(i) /\ After(j) # After(i)
    BY <1>5, <2>1, <2>2
  <2>4. After(j) \in T /\ After(j) \in SUBSET S /\ After(i) \in SUBSET S
    OBVIOUS
  <2>5. <<After(j), x>> \in StrictSubsetOrdering(S)
    <3> HIDE DEF After
    <3> QED
      BY <1>4, <2>3, <2>4 DEF StrictSubsetOrdering
  <2> QED
    BY <1>3, <2>4, <2>5
<1> QED
  BY <1>5

\* The rows whose groups the expiration task looks at.
EndedRows ==
    {i \in Groups!Rows : /\ held[i].status = "expired" \/ i \in Groups!Due(job.now)
                         /\ ~Groups!Ungrouped(held[i].plan)}

LEMMA MarksFacts ==
    ASSUME OrdersHeld, Groups!ExpireMarks
    PROVE  /\ job' \in [at : {"idle", "read", "marked"}, now : Int, due : SUBSET Groups!Ids,
                        last : Int]
           /\ job'.at = "marked" /\ job'.due = Groups!Due(job.now) /\ job'.now = job.now
           /\ \/ job'.last # 0 /\ job'.last \in EndedRows
              \/ /\ job'.last = 0
                 /\ Groups!ActiveUpgraded(job.now) # {} \/ EndedRows = {}
           /\ UNCHANGED <<held, group, admin>> /\ admin.sub \notin job'.due
<1>1. /\ held \in [Groups!Ids -> HeldRow] /\ Groups!Ids \subseteq Int /\ 0 \notin Groups!Ids
      /\ IsFiniteSet(Groups!Ids)
      /\ job \in [at : {"idle", "read", "marked"}, now : Int, due : SUBSET Groups!Ids,
                  last : Int]
  <2>1. MaxSubs \in Nat /\ Groups!Ids = 1..MaxSubs
    BY TermsFacts DEF OrdersHeld, OrdersTyped
  <2>2. IsFiniteSet(Groups!Ids)
    BY <2>1, FS_Interval
  <2> QED
    BY <2>1, <2>2 DEF OrdersHeld, OrdersTyped
<1>2. EndedRows \subseteq Groups!Ids /\ Groups!Due(job.now) \subseteq Groups!Ids
  BY DEF EndedRows, Groups!Due, Groups!Rows
<1>3. PICK l : /\ l = IF Groups!ActiveUpgraded(job.now) # {} \/ EndedRows = {}
                      THEN 0 ELSE Groups!LastOf(EndedRows)
               /\ job' = [job EXCEPT !.at = "marked", !.due = Groups!Due(job.now), !.last = l]
               /\ UNCHANGED <<held, group, admin>> /\ admin.sub \notin Groups!Due(job.now)
  BY DEF Groups!ExpireMarks, EndedRows
<1>3a. PICK d : d = Groups!Due(job.now) /\ d \in SUBSET Groups!Ids
  BY <1>2
<1>3b. ASSUME l \in Int
       PROVE  /\ job' \in [at : {"idle", "read", "marked"}, now : Int,
                           due : SUBSET Groups!Ids, last : Int]
              /\ job'.at = "marked" /\ job'.due = d /\ job'.now = job.now /\ job'.last = l
  <2>1. job' = [job EXCEPT !.at = "marked", !.due = d, !.last = l]
    BY <1>3, <1>3a
  <2>2. job' \in [at : {"idle", "read", "marked"}, now : Int, due : SUBSET Groups!Ids,
                  last : Int]
    BY <1>1, <1>3a, <1>3b, <2>1
  <2>3. job'.at = "marked" /\ job'.due = d /\ job'.now = job.now /\ job'.last = l
    BY <1>1, <2>1
  <2> QED
    BY <2>2, <2>3
<1>4. CASE Groups!ActiveUpgraded(job.now) # {} \/ EndedRows = {}
  <2>1. l = 0 /\ 0 \in Int
    BY <1>3, <1>4
  <2> QED
    BY <1>3, <1>3a, <1>3b, <1>4, <2>1
<1>5. CASE ~(Groups!ActiveUpgraded(job.now) # {} \/ EndedRows = {})
  <2>1. PICK S : S = EndedRows /\ S # {} /\ S \subseteq Groups!Ids
    BY <1>2, <1>5
  <2>2. IsFiniteSet(S) /\ S \subseteq Int
    BY <1>1, <2>1, FS_Subset
  <2>3. PICK e : e = [i \in S |-> held[i].end]
    OBVIOUS
  <2>4. e \in [S -> Int]
    BY <1>1, <2>1, <2>3 DEF HeldRow
  <2>5. \E i \in S : \A j \in S : e[j] < e[i] \/ (e[j] = e[i] /\ j <= i)
    BY <2>1, <2>2, <2>4, LastExists
  <2>6. Groups!LastOf(S) \in S
    BY <2>3, <2>5 DEF Groups!LastOf
  <2>7. l \in EndedRows /\ l \in Int /\ l # 0
    BY <1>1, <1>3, <1>5, <2>1, <2>2, <2>6
  <2> QED
    BY <1>3, <1>3a, <1>3b, <2>7
<1> QED
  BY <1>4, <1>5

JobRow == [at : {"idle", "read", "marked"}, now : Int, due : SUBSET Groups!Ids, last : Int]
AdminRow == [at : {"idle", "checked"}, sub : Int, target : Names]

\* What has to be shown of a step.
Kept ==
    /\ held' \in [Groups!Ids -> HeldRow] /\ group' \in Names
    /\ admin' \in AdminRow /\ job' \in JobRow
    /\ Dense' /\ Apart'

LEMMA ConstantTerms ==
    ASSUME terms' = terms
    PROVE  /\ Groups!Ids' = Groups!Ids /\ Groups!Plans' = Groups!Plans /\ Names' = Names
           /\ HeldRow' = HeldRow /\ OrderRow' = OrderRow
           /\ Groups!NoJob' = Groups!NoJob /\ Groups!NoAdmin' = Groups!NoAdmin
           /\ \A p : Groups!Ungrouped(p)' <=> Groups!Ungrouped(p)
<1>1. Groups!Plans' = Groups!Plans /\ Groups!Ids' = Groups!Ids
  BY DEF Groups!Plans, Groups!Ids
<1>2. Names' = Names
  BY <1>1 DEF Names
<1> QED
  BY <1>1, <1>2 DEF HeldRow, OrderRow, Groups!NoJob, Groups!NoAdmin, Groups!Ungrouped,
                    Groups!Downgrade

LEMMA TypeFacts ==
    ASSUME OrdersHeld
    PROVE  /\ held \in [Groups!Ids -> HeldRow] /\ group \in Names
           /\ admin \in AdminRow /\ job \in JobRow /\ Dense /\ Apart
           /\ Groups!NoJob \in JobRow /\ Groups!NoAdmin \in AdminRow
           /\ Groups!NoJob.at = "idle" /\ Groups!NoJob.due = {} /\ Groups!NoJob.last = 0
           /\ Groups!NoAdmin.at = "idle" /\ Groups!NoAdmin.sub = 0
           /\ Groups!Ids \subseteq Int /\ 0 \notin Groups!Ids
<1>1. "" \in Names
  BY DEF Names
<1>2. Groups!NoJob \in JobRow /\ Groups!NoAdmin \in AdminRow
  <2>1. {} \in SUBSET Groups!Ids /\ 0 \in Int
    OBVIOUS
  <2>2. Groups!NoJob \in JobRow
    BY <2>1 DEF JobRow, Groups!NoJob
  <2>3. Groups!NoAdmin \in AdminRow
    BY <1>1, <2>1 DEF AdminRow, Groups!NoAdmin
  <2> QED
    BY <2>2, <2>3
<1>3. Groups!Ids \subseteq Int /\ 0 \notin Groups!Ids
  <2>1. MaxSubs \in Nat /\ Groups!Ids = 1..MaxSubs
    BY TermsFacts DEF OrdersHeld, OrdersTyped
  <2> QED
    BY <2>1
<1>4. /\ Groups!NoJob.at = "idle" /\ Groups!NoJob.due = {} /\ Groups!NoJob.last = 0
      /\ Groups!NoAdmin.at = "idle" /\ Groups!NoAdmin.sub = 0
  BY DEF Groups!NoJob, Groups!NoAdmin
<1>5. /\ held \in [Groups!Ids -> HeldRow] /\ group \in Names
      /\ admin \in AdminRow /\ job \in JobRow /\ Dense /\ Apart
  BY DEF OrdersHeld, OrdersTyped, JobRow, AdminRow
<1> QED
  BY <1>2, <1>3, <1>4, <1>5

LEMMA MadeKeeps ==
    ASSUME OrdersHeld, terms' = terms, NEW p \in Groups!Plans, MadeOne(p) PROVE Kept
<1>1. /\ held \in [Groups!Ids -> HeldRow] /\ group \in Names
      /\ admin \in AdminRow /\ job \in JobRow /\ Apart
  BY TypeFacts
<1>2. PICK i \in Groups!Ids, w \in HeldRow :
         /\ held[i].status = "none" /\ Used' = Used \cup {i} /\ Dense'
         /\ held' = [held EXCEPT ![i] = w] /\ w.status = "active"
  BY DEF MadeOne, OneMade
<1>3. /\ held' \in [Groups!Ids -> HeldRow]
      /\ \A j \in Groups!Ids : j # i => held'[j] = held[j]
      /\ admin' = admin /\ job' = job
  BY <1>1, <1>2 DEF MadeOne
<1>4. group' \in Names
  BY <1>1 DEF MadeOne, OneMade, Names
<1>5. \A j \in Groups!Rows : j # i /\ j \in Groups!Rows' /\ held'[j].plan = held[j].plan
  BY <1>2, <1>3, ConstantTerms DEF Groups!Rows
<1>6. \A j \in Used : j # i /\ held'[j] = held[j]
  BY <1>2, <1>3 DEF Used
<1>7. Apart'
  BY <1>1, <1>2, <1>3, <1>5, <1>6, ConstantTerms DEF Apart
<1> QED
  BY <1>1, <1>2, <1>3, <1>4, <1>7 DEF Kept

LEMMA UnusedStays ==
    ASSUME OrdersHeld, terms' = terms, held' \in [Groups!Ids -> HeldRow],
           \A i \in Groups!Ids : held'[i].status = "none" <=> held[i].status = "none"
    PROVE  Used' = Used /\ Dense'
<1>1. Used' = Used
  BY ConstantTerms DEF Used
<1> QED
  BY <1>1 DEF Dense, OrdersHeld

LEMMA AdminKeeps ==
    ASSUME OrdersHeld, terms' = terms,
           AdminFails \/ AdminEnds \/ \E i \in Groups!Ids : Groups!AdminChecks(i)
    PROVE  Kept
<1>1. /\ held \in [Groups!Ids -> HeldRow] /\ group \in Names
      /\ admin \in AdminRow /\ job \in JobRow /\ Apart /\ Groups!NoAdmin \in AdminRow
      /\ Groups!NoAdmin.at = "idle" /\ Groups!NoAdmin.sub = 0
      /\ Groups!Ids \subseteq Int /\ 0 \notin Groups!Ids
  BY TypeFacts
<1>2. CASE AdminFails
  <2>1. UNCHANGED <<held, group, job>> /\ admin' = Groups!NoAdmin
    BY <1>2 DEF AdminFails
  <2>2. Used' = Used /\ Dense' /\ Groups!Rows' = Groups!Rows
    BY <1>1, <2>1, UnusedStays, ConstantTerms DEF Groups!Rows
  <2>3. Apart'
    BY <1>1, <2>1, <2>2, ConstantTerms DEF Apart
  <2> QED
    BY <1>1, <2>1, <2>2, <2>3 DEF Kept
<1>3. CASE AdminEnds
  <2>1. PICK i \in Groups!Ids : i = admin.sub /\ i \in Groups!Rows /\ i \notin job.due
    BY <1>1, <1>3 DEF AdminEnds, Apart, Groups!Rows
  <2>2. PICK w \in HeldRow :
           /\ held' = [held EXCEPT ![i] = w] /\ w.plan = held[i].plan
           /\ w.status \in {"cancelled", "deleted"}
    BY <1>3, <2>1 DEF AdminEnds
  <2>3. /\ held' \in [Groups!Ids -> HeldRow] /\ admin' = Groups!NoAdmin /\ job' = job
        /\ \A j \in Groups!Ids : j # i => held'[j] = held[j]
        /\ held'[i] = w
    BY <1>1, <1>3, <2>2 DEF AdminEnds
  <2>4. Used' = Used /\ Dense'
    <3>1. held[i].status # "none"
      BY <2>1 DEF Groups!Rows
    <3> QED
      BY <2>2, <2>3, <3>1, UnusedStays
  <2>5. group' \in Names
    BY <1>1, <1>3 DEF AdminEnds, AdminRow
  <2>6. \A j \in job.due : j \in Groups!Rows'
    BY <1>1, <2>1, <2>3, ConstantTerms DEF Apart, Groups!Rows
  <2>7. \A j \in Groups!Ids : held'[j].plan = held[j].plan
    BY <2>2, <2>3
  <2>8. Apart'
    BY <1>1, <2>3, <2>4, <2>6, <2>7, ConstantTerms DEF Apart, Used
  <2> QED
    BY <1>1, <2>3, <2>4, <2>5, <2>8 DEF Kept
<1>4. ASSUME NEW i \in Groups!Ids, Groups!AdminChecks(i) PROVE Kept
  <2>1. /\ UNCHANGED <<held, group, job>> /\ i \in Groups!Rows /\ i \notin job.due
        /\ admin' = [at |-> "checked", sub |-> i, target |-> Groups!DowngradeTarget(i)]
    BY <1>4 DEF Groups!AdminChecks
  <2>2. held[i].prev \in Names /\ held[i].plan \in Groups!Plans
    BY <1>1 DEF HeldRow
  <2>3. Groups!DowngradeTarget(i) \in Names
    BY <2>2 DEF Groups!DowngradeTarget, Names, Groups!Downgrade
  <2>4. admin' \in AdminRow /\ admin'.at = "checked" /\ admin'.sub = i
    BY <1>1, <2>1, <2>3 DEF AdminRow
  <2>5. Used' = Used /\ Dense' /\ Groups!Rows' = Groups!Rows
    BY <1>1, <2>1, UnusedStays, ConstantTerms DEF Groups!Rows
  <2>6. Apart'
    BY <1>1, <2>1, <2>4, <2>5, ConstantTerms DEF Apart
  <2> QED
    BY <1>1, <2>1, <2>4, <2>5, <2>6 DEF Kept
<1> QED
  BY <1>2, <1>3, <1>4

LEMMA JobKeeps ==
    ASSUME OrdersHeld, terms' = terms,
           Groups!ExpireReads \/ Groups!ExpireMarks \/ JobFails \/ JobEnds
    PROVE  Kept
<1>1. /\ held \in [Groups!Ids -> HeldRow] /\ group \in Names
      /\ admin \in AdminRow /\ job \in JobRow /\ Apart /\ Groups!NoJob \in JobRow
      /\ Groups!NoJob.at = "idle" /\ Groups!NoJob.due = {} /\ Groups!NoJob.last = 0
      /\ Groups!Ids \subseteq Int /\ 0 \notin Groups!Ids
  BY TypeFacts
<1>2. CASE Groups!ExpireReads
  <2>1. /\ UNCHANGED <<held, group, admin>> /\ clock \in Int
        /\ job' = [Groups!NoJob EXCEPT !.at = "read", !.now = clock]
    BY <1>2 DEF Groups!ExpireReads, OrdersHeld, OrdersTyped
  <2>2. job' \in JobRow
    BY <1>1, <2>1 DEF JobRow
  <2>2a. job'.at = "read" /\ job'.due = {} /\ job'.last = 0
    BY <1>1, <2>1 DEF JobRow
  <2>3. Used' = Used /\ Dense' /\ Groups!Rows' = Groups!Rows
    BY <1>1, <2>1, UnusedStays, ConstantTerms DEF Groups!Rows
  <2>4. Apart'
    BY <1>1, <2>1, <2>2a, <2>3, ConstantTerms DEF Apart
  <2> QED
    BY <1>1, <2>1, <2>2, <2>3, <2>4 DEF Kept
<1>3. CASE Groups!ExpireMarks
  <2>1. /\ job' \in JobRow /\ job'.at = "marked" /\ job'.due = Groups!Due(job.now)
        /\ job'.last = 0 \/ job'.last \in EndedRows
        /\ UNCHANGED <<held, group, admin>> /\ admin.sub \notin job'.due
    BY <1>3, MarksFacts DEF JobRow
  <2>2. Used' = Used /\ Dense' /\ Groups!Rows' = Groups!Rows
    BY <1>1, <2>1, UnusedStays, ConstantTerms DEF Groups!Rows
  <2>3. job'.due \subseteq Groups!Rows
    BY <2>1 DEF Groups!Due
  <2>4. job'.last # 0 => job'.last \in Used /\ ~Groups!Ungrouped(held[job'.last].plan)
    BY <2>1 DEF EndedRows, Used, Groups!Rows
  <2>5. Apart'
    BY <1>1, <2>1, <2>2, <2>3, <2>4, ConstantTerms DEF Apart
  <2> QED
    BY <1>1, <2>1, <2>2, <2>5 DEF Kept
<1>4. CASE JobFails
  <2>1. UNCHANGED <<held, group, admin>> /\ job' = Groups!NoJob
    BY <1>4 DEF JobFails
  <2>2. Used' = Used /\ Dense' /\ Groups!Rows' = Groups!Rows
    BY <1>1, <2>1, UnusedStays, ConstantTerms DEF Groups!Rows
  <2>3. Apart'
    BY <1>1, <2>1, <2>2, ConstantTerms DEF Apart
  <2> QED
    BY <1>1, <2>1, <2>2, <2>3 DEF Kept
<1>5. CASE JobEnds
  <2>1. /\ admin' = admin /\ job' = Groups!NoJob
        /\ \A i \in Groups!Ids :
              held'[i] = IF i \in job.due THEN [held[i] EXCEPT !.status = "expired"] ELSE held[i]
    BY <1>5 DEF JobEnds
  <2>2. \A i \in Groups!Ids : /\ held'[i] \in HeldRow /\ held'[i].plan = held[i].plan
                              /\ i \in job.due => held'[i].status = "expired"
    BY <1>1, <2>1, ZenonT(60) DEF HeldRow
  <2>3. held' \in [Groups!Ids -> HeldRow]
    BY <1>5, <2>2 DEF JobEnds
  <2>4. \A i \in Groups!Rows : i \in Groups!Rows'
    BY <2>1, <2>2, ConstantTerms DEF Groups!Rows
  <2>5. Used' = Used /\ Dense'
    <3>1. \A i \in job.due : held[i].status # "none"
      BY <1>1 DEF Apart, Groups!Rows
    <3> QED
      BY <2>1, <2>2, <2>3, <3>1, UnusedStays
  <2>6. group' \in Names
    <3>1. CASE job.last = 0
      BY <1>1, <1>5, <3>1 DEF JobEnds
    <3>2. CASE job.last # 0
      <4>1. job.last \in Groups!Ids
        BY <1>1, <3>2 DEF Apart, Used
      <4>2. held[job.last].prev \in Names /\ held[job.last].plan \in Groups!Plans
        BY <1>1, <4>1 DEF HeldRow
      <4>3. Groups!RevertTo(job.last) \in Names
        BY <4>2 DEF Groups!RevertTo, Names, Groups!Downgrade
      <4> QED
        BY <1>1, <1>5, <3>2, <4>3 DEF JobEnds
    <3> QED
      BY <3>1, <3>2
  <2>7. Apart'
    BY <1>1, <2>1, <2>4, ConstantTerms DEF Apart
  <2> QED
    BY <1>1, <2>1, <2>3, <2>5, <2>6, <2>7 DEF Kept
<1> QED
  BY <1>2, <1>3, <1>4, <1>5

OrdersInv == OrdersHeld /\ OrdersRest

LEMMA OrdersInvStays ==
    ASSUME OrdersInv, [Groups!Next]_orderVars PROVE OrdersInv'
<1>1. CASE UNCHANGED orderVars
  <2>1. UNCHANGED <<terms, order, paid, held, group, quota, clock, buyer, admin, job, left, made>>
    BY <1>1 DEF orderVars
  <2>2. OrdersTyped'
    BY <2>1, ConstantTerms DEF OrdersInv, OrdersHeld, OrdersTyped
  <2>3. Used' = Used /\ Groups!Rows' = Groups!Rows
    BY <2>1, ConstantTerms DEF Used, Groups!Rows
  <2>4. Dense' /\ Apart'
    BY <2>1, <2>3, ConstantTerms DEF OrdersInv, OrdersHeld, Dense, Apart
  <2>5. OrdersRest'
    BY <2>1 DEF OrdersInv, OrdersRest, Groups!FulfilledOnce, Groups!Snapshots,
                Groups!AdminOps, Groups!LastTime
  <2> QED
    BY <2>2, <2>4, <2>5 DEF OrdersInv, OrdersHeld
<1>2. CASE Groups!Next
  <2>1. OrdersHeld /\ OrdersRest /\ OrdersTyped /\ OrderStep
    BY <1>2, NextOrderStep DEF OrdersInv, OrdersHeld
  <2>2. /\ terms' = terms /\ OrdersRest'
        /\ order' \in [Orders -> OrderRow] /\ made' \in [Orders -> Int]
        /\ paid' \subseteq Orders
        /\ buyer' \in [Buyers -> [at : {"idle", "read", "snapshot"}, plan : Groups!Plans,
                                  count : Int]]
        /\ quota' \in Int /\ left' \in [fault : Int, admin : Int] /\ clock' \in Int
    BY <1>2, <2>1, RestKeeps
  <2>3. ASSUME UNCHANGED <<held, group, admin, job>> PROVE Kept
    <3>1. Used' = Used /\ Groups!Rows' = Groups!Rows
      BY <2>2, <2>3, ConstantTerms DEF Used, Groups!Rows
    <3>2. Dense' /\ Apart'
      BY <2>1, <2>2, <2>3, <3>1, ConstantTerms DEF OrdersHeld, Dense, Apart
    <3> QED
      BY <2>1, <2>2, <2>3, <3>2, TypeFacts DEF Kept
  <2>4. Kept
    BY <2>1, <2>2, <2>3, MadeKeeps, AdminKeeps, JobKeeps DEF OrderStep
  <2>5. terms' \in OrderSettings
    BY <2>1, <2>2 DEF OrdersTyped
  <2>6. OrdersTyped'
    BY <2>2, <2>4, <2>5, ConstantTerms DEF OrdersTyped, Kept, JobRow, AdminRow
  <2> QED
    BY <2>2, <2>4, <2>6 DEF OrdersInv, OrdersHeld, Kept
<1> QED
  BY <1>1, <1>2

LEMMA OrdersInvInit == ASSUME Groups!Init PROVE OrdersInv
<1>1. /\ terms \in OrderSettings /\ Groups!NoSub.plan \in Groups!Plans
      /\ Groups!InitQuota \in Nat /\ Groups!LastTime \in Nat
      /\ Groups!FaultBudget \in Nat /\ Groups!AdminOps \in Nat
  BY TermsFacts DEF Groups!Init
<1>2. MaxSubs \in Nat /\ Groups!Ids = 1..MaxSubs
  BY TermsFacts DEF Groups!Init
<1>3. "" \in Names /\ BaseGroup \in Names
  BY DEF Names
<1>4. \A i \in Groups!Ids : held[i] = Groups!NoSub
  BY DEF Groups!Init
<1>5. Groups!NoSub \in HeldRow /\ Groups!NoSub.status = "none"
  <2>0. Groups!Plans # {}
    BY <1>1
  <2>1. PICK q : q = (CHOOSE p \in Groups!Plans : TRUE) /\ q \in Groups!Plans
    BY <2>0
  <2>2. PICK e : e = "" /\ e \in Names
    BY <1>3
  <2>3. Groups!NoSub = [status |-> "none", plan |-> q, end |-> 0, prev |-> e]
    BY <2>1, <2>2 DEF Groups!NoSub
  <2>4. e \in Names /\ q \in Groups!Plans
    BY <2>1, <2>2
  <2> QED
    BY <2>3, <2>4 DEF HeldRow
<1>6. order \in [Orders -> OrderRow] /\ \A o \in Orders : order[o].status = "none"
  <2>1. [status |-> "none", plan |-> Groups!NoSub.plan, link |-> FALSE] \in OrderRow
    BY <1>1 DEF OrderRow
  <2> QED
    BY <2>1 DEF Groups!Init
<1>7. /\ buyer \in [Buyers -> [at : {"idle", "read", "snapshot"}, plan : Groups!Plans,
                               count : Int]]
      /\ \A b \in Buyers : buyer[b].at = "idle"
  <2>1. Groups!NoBuyer \in [at : {"idle", "read", "snapshot"}, plan : Groups!Plans, count : Int]
        /\ Groups!NoBuyer.at = "idle"
    BY <1>1 DEF Groups!NoBuyer
  <2> QED
    BY <2>1 DEF Groups!Init
<1>8. admin \in AdminRow /\ admin.at = "idle" /\ admin = Groups!NoAdmin
  <2>1. PICK e : e = "" /\ e \in Names
    BY <1>3
  <2>2. admin = [at |-> "idle", sub |-> 0, target |-> e] /\ admin = Groups!NoAdmin
    BY <2>1 DEF Groups!NoAdmin, Groups!Init
  <2>3. e \in Names
    BY <2>1
  <2> QED
    BY <2>2, <2>3 DEF AdminRow
<1>9. job \in JobRow /\ job.at = "idle" /\ job.due = {} /\ job.last = 0 /\ job = Groups!NoJob
  BY DEF JobRow, Groups!NoJob, Groups!Init
<1>10. held \in [Groups!Ids -> HeldRow]
  BY <1>5 DEF Groups!Init
<1>11. quota \in Int /\ clock \in Int /\ quota >= 0 /\ clock <= Groups!LastTime
  BY <1>1 DEF Groups!Init
<1>12. left \in [fault : Int, admin : Int] /\ left.admin <= Groups!AdminOps
  BY <1>1 DEF Groups!Init
<1>13. made \in [Orders -> Int] /\ Groups!FulfilledOnce
  BY <1>6 DEF Groups!Init, Groups!FulfilledOnce
<1>14. OrdersTyped
  BY <1>1, <1>3, <1>6, <1>7, <1>8, <1>9, <1>10, <1>11, <1>12, <1>13
     DEF OrdersTyped, JobRow, AdminRow, Groups!Init
<1>15. Used = {}
  BY <1>4, <1>5 DEF Used
<1>16. Dense
  <2>1. 0 \in 0..MaxSubs /\ 1..0 = {}
    BY <1>2
  <2> QED
    BY <1>15, <2>1 DEF Dense
<1>17. Apart
  BY <1>8, <1>9 DEF Apart
<1> QED
  BY <1>7, <1>11, <1>12, <1>13, <1>14, <1>16, <1>17 DEF OrdersInv, OrdersHeld, OrdersRest

LEMMA MCStepsOrders ==
    ASSUME [MCNext]_<<part, vars, orderVars>> PROVE [Groups!Next]_orderVars
BY DEF MCNext

-----------------------------------------------------------------------------
(* The limit of purchases.                                                 *)

WithinLimit ==
    ~Groups!Snapshots
    => \A p \in Groups!Plans :
          terms.limit[p] > 0 => Cardinality(OfPlan(p)) <= terms.limit[p]

\* A step that makes no subscription adds no row of any plan.
LEMMA NoRowAdded ==
    ASSUME OrdersHeld, terms' = terms, OrderStep, NEW p, ~\E q \in Groups!Plans : MadeOne(q)
    PROVE  OfPlan(p)' \subseteq OfPlan(p)
<1>1. /\ held \in [Groups!Ids -> HeldRow] /\ Groups!Ids' = Groups!Ids /\ Apart
  BY TypeFacts, ConstantTerms
<1>2. CASE held' = held
  BY <1>1, <1>2 DEF OfPlan, Groups!Rows
<1>3. CASE AdminEnds
  <2>1. PICK i \in Groups!Ids, w \in HeldRow :
           /\ i \in Groups!Rows /\ held' = [held EXCEPT ![i] = w] /\ w.plan = held[i].plan
    BY <1>1, <1>3 DEF AdminEnds, Apart, Groups!Rows
  <2>2. \A j \in Groups!Ids : held'[j] = IF j = i THEN w ELSE held[j]
    BY <1>1, <2>1
  <2> QED
    BY <1>1, <2>1, <2>2 DEF OfPlan, Groups!Rows
<1>4. CASE JobEnds
  <2>1. \A i \in Groups!Ids :
           held'[i] = IF i \in job.due THEN [held[i] EXCEPT !.status = "expired"] ELSE held[i]
    BY <1>4 DEF JobEnds
  <2>2. \A i \in Groups!Ids : /\ held'[i].plan = held[i].plan
                              /\ i \notin job.due => held'[i] = held[i]
    BY <1>1, <2>1 DEF HeldRow
  <2> QED
    BY <1>1, <2>2 DEF OfPlan, Groups!Rows, Apart
<1> QED
  BY <1>2, <1>3, <1>4 DEF OrderStep, AdminFails, JobFails, Groups!AdminChecks,
                          Groups!ExpireReads, Groups!ExpireMarks

\* One that makes a subscription of plan p adds one of p.
LEMMA OneRowAdded ==
    ASSUME OrdersHeld, terms' = terms, NEW p \in Groups!Plans, MadeOne(p), NEW q
    PROVE  \E i : OfPlan(q)' \subseteq OfPlan(q) \cup (IF q = p THEN {i} ELSE {})
<1>1. held \in [Groups!Ids -> HeldRow] /\ Groups!Ids' = Groups!Ids
  BY TypeFacts, ConstantTerms
<1>2. PICK i \in Groups!Ids, w \in HeldRow : held' = [held EXCEPT ![i] = w] /\ w.plan = p
  BY DEF MadeOne, OneMade
<1>3. \A j \in Groups!Ids : held'[j] = IF j = i THEN w ELSE held[j]
  BY <1>1, <1>2
<1>4. \A j \in OfPlan(q)' : j \in OfPlan(q) \/ (j = i /\ q = p)
  BY <1>1, <1>2, <1>3 DEF OfPlan, Groups!Rows
<1> QED
  BY <1>4

LEMMA LimitStays ==
    ASSUME OrdersInv, OrdersInv', WithinLimit, [Groups!Next]_orderVars PROVE WithinLimit'
<1>1. CASE UNCHANGED orderVars
  BY <1>1 DEF WithinLimit, orderVars, Groups!Snapshots, Groups!Plans, OfPlan, Groups!Rows
<1>2. CASE Groups!Next
  <2>1. /\ OrdersHeld /\ OrdersTyped /\ OrdersTyped' /\ OrderStep
        /\ terms' = terms /\ Groups!Plans' = Groups!Plans /\ Groups!Snapshots' = Groups!Snapshots
    BY <1>2, NextOrderStep DEF OrdersInv, OrdersHeld, Groups!Next, Groups!Snapshots,
                               Groups!Plans
  <2> SUFFICES ASSUME ~Groups!Snapshots, NEW q \in Groups!Plans, terms.limit[q] > 0
               PROVE  Cardinality(OfPlan(q)') <= terms.limit[q]
    BY <2>1 DEF WithinLimit
  <2>2. terms.limit[q] \in Nat
    BY <2>1, TermsFacts DEF OrdersTyped
  <2>3. /\ IsFiniteSet(OfPlan(q)) /\ Cardinality(OfPlan(q)) \in Nat
        /\ Groups!CountByPlan(q) = Cardinality(OfPlan(q))
    BY <2>1, CountFacts
  <2>4. Cardinality(OfPlan(q)) <= terms.limit[q]
    BY DEF WithinLimit
  <2>5. ASSUME OfPlan(q)' \subseteq OfPlan(q)
        PROVE  Cardinality(OfPlan(q)') <= terms.limit[q]
    <3>1. Cardinality(OfPlan(q)') <= Cardinality(OfPlan(q)) /\ Cardinality(OfPlan(q)') \in Nat
      BY <2>3, <2>5, FS_Subset, FS_CardinalityType
    <3> QED
      BY <2>2, <2>3, <2>4, <3>1
  <2>6. CASE ~\E p \in Groups!Plans : MadeOne(p)
    BY <2>1, <2>5, <2>6, NoRowAdded
  <2>7. ASSUME NEW p \in Groups!Plans, MadeOne(p)
        PROVE  Cardinality(OfPlan(q)') <= terms.limit[q]
    <3>1. PICK i : OfPlan(q)' \subseteq OfPlan(q) \cup (IF q = p THEN {i} ELSE {})
      BY <2>1, <2>7, OneRowAdded
    <3>2. CASE q = p
      <4>1. Cardinality(OfPlan(q)) < terms.limit[q]
        BY <2>3, <2>7, <3>2 DEF MadeOne, Groups!BelowLimit, Groups!Limit
      <4>2. /\ IsFiniteSet(OfPlan(q) \cup {i})
            /\ \/ Cardinality(OfPlan(q) \cup {i}) = Cardinality(OfPlan(q))
               \/ Cardinality(OfPlan(q) \cup {i}) = Cardinality(OfPlan(q)) + 1
        BY <2>3, FS_AddElement
      <4>3. /\ Cardinality(OfPlan(q)') <= Cardinality(OfPlan(q) \cup {i})
            /\ IsFiniteSet(OfPlan(q)')
        BY <3>1, <3>2, <4>2, FS_Subset
      <4>4. Cardinality(OfPlan(q)') \in Nat
        BY <4>3, FS_CardinalityType
      <4> QED
        BY <2>2, <2>3, <4>1, <4>2, <4>3, <4>4
    <3>3. CASE q # p
      BY <2>5, <3>1, <3>3
    <3> QED
      BY <3>2, <3>3
  <2> QED
    BY <2>6, <2>7
<1> QED
  BY <1>1, <1>2

LEMMA LimitInit == ASSUME Groups!Init PROVE WithinLimit
<1>1. OrdersInv /\ OrdersTyped
  BY OrdersInvInit DEF OrdersInv, OrdersHeld
<1>2. \A p : OfPlan(p) = {}
  BY DEF OfPlan, Groups!Rows, Groups!Init, Groups!NoSub
<1>3. \A p \in Groups!Plans : terms.limit[p] \in Nat
  BY <1>1, TermsFacts DEF OrdersTyped
<1> QED
  BY <1>2, <1>3, FS_EmptySet DEF WithinLimit

\* Whichever of gateways, the balance and the administrator a subscription is
\* bought with, and however often notices come: an order is fulfilled once,
\* the wallet never goes below zero and, where a transaction reads what was
\* committed before its lock, nobody holds more subscriptions of a plan than
\* MaxPurchasePerUser allows.
THEOREM PurchasesStayWithinPlan == MCSpec => []PurchasesWithinPlan
<1>1. MCInit => OrdersInv /\ WithinLimit
  BY OrdersInvInit, LimitInit DEF MCInit
<1>2. OrdersInv /\ WithinLimit /\ [MCNext]_<<part, vars, orderVars>>
      => (OrdersInv /\ WithinLimit)'
  BY OrdersInvStays, LimitStays, MCStepsOrders
<1>3. OrdersInv /\ WithinLimit => PurchasesWithinPlan
  <2> SUFFICES ASSUME OrdersInv, WithinLimit PROVE PurchasesWithinPlan
    OBVIOUS
  <2>1. \A p \in Groups!Plans : Groups!CountByPlan(p) = Cardinality(OfPlan(p))
    BY CountFacts DEF OrdersInv, OrdersHeld
  <2>2. Groups!WithinPurchaseLimit
    BY <2>1 DEF Groups!WithinPurchaseLimit, WithinLimit, OrdersInv, OrdersRest, Groups!Limit
  <2> QED
    BY <2>2 DEF PurchasesWithinPlan, OrdersInv, OrdersRest
<1> QED
  BY <1>1, <1>2, <1>3, PTL DEF MCSpec

-----------------------------------------------------------------------------
(* The group of the user.  The empty string stands for no group; the facts *)
(* about it are stated once.                                               *)

Blank == ""

LEMMA BlankUpgrade == ASSUME NEW p, Upgrade[p] # Blank PROVE ~Groups!Ungrouped(p)
BY DEF Blank, Groups!Ungrouped

LEMMA BlankActive ==
    ASSUME NEW t, NEW i
    PROVE  i \in Groups!ActiveUpgraded(t)
           <=> /\ i \in Groups!Rows /\ held[i].status = "active" /\ held[i].end > t
               /\ Upgrade[held[i].plan] # Blank
BY DEF Blank, Groups!ActiveUpgraded

LEMMA BlankMade ==
    ASSUME NEW p, MadeOne(p)
    PROVE  \/ Upgrade[p] # Blank /\ group' = Upgrade[p]
           \/ Upgrade[p] = Blank /\ group' = group
BY DEF Blank, MadeOne, OneMade

LEMMA BlankTarget ==
    ASSUME NEW i, Groups!DowngradeTarget(i) # Blank
    PROVE  /\ ~Groups!Ungrouped(held[i].plan)
           /\ \A j \in Groups!ActiveUpgraded(clock) : j = i
BY DEF Blank, Groups!DowngradeTarget

LEMMA BlankEnds ==
    ASSUME AdminEnds
    PROVE  (admin.target = Blank /\ group' = group) \/ admin.target # Blank
BY DEF Blank, AdminEnds

LEMMA BlankRevert ==
    ASSUME NEW i, terms.downgrade[held[i].plan] = BaseGroup, BaseGroup # Blank
    PROVE  Groups!RevertTo(i) = BaseGroup
BY DEF Blank, Groups!RevertTo, Groups!Downgrade

LEMMA BlankJob ==
    ASSUME JobEnds, job.last # 0, NEW g, Groups!RevertTo(job.last) = g, g # Blank
    PROVE  group' = g
<1>1. group' = IF Groups!RevertTo(job.last) = "" THEN group ELSE Groups!RevertTo(job.last)
  BY DEF JobEnds
<1> QED
  BY <1>1 DEF Blank

LEMMA BlankBase == BaseGroup # Blank
BY OrdersAssumption DEF Blank

\* A subscription that is made is active, and the others are left alone.
LEMMA MadeRow ==
    ASSUME OrdersHeld, NEW p, MadeOne(p)
    PROVE  \E i \in Groups!Ids :
              /\ held[i].status = "none" /\ held'[i].status = "active"
              /\ held'[i].plan = p /\ held'[i].end = clock + terms.term[p]
              /\ \A j \in Groups!Ids : j # i => held'[j] = held[j]
<1>1. held \in [Groups!Ids -> HeldRow]
  BY TypeFacts
<1>2. PICK i \in Groups!Ids, w \in HeldRow :
         /\ held[i].status = "none" /\ held' = [held EXCEPT ![i] = w]
         /\ w.plan = p /\ w.status = "active" /\ w.end = clock + terms.term[p]
  BY DEF MadeOne, OneMade
<1>3. held'[i] = w /\ \A j \in Groups!Ids : j # i => held'[j] = held[j]
  BY <1>1, <1>2
<1> QED
  BY <1>2, <1>3

-----------------------------------------------------------------------------
(* No plan ends before the time does: the administrator ends subscriptions. *)

Long == \A p \in Groups!Plans : terms.term[p] > Groups!LastTime

UpActive == {i \in Groups!Ids : held[i].status = "active" /\ Upgrade[held[i].plan] # Blank}

UpNames == {Upgrade[p] : p \in Groups!Plans} \ {Blank}

UpgradeInv ==
    Long =>
    /\ clock >= 0
    /\ \A i \in Groups!Ids : held[i].status = "active" => held[i].end > Groups!LastTime
    /\ job.at = "idle"
    /\ admin.at = "checked" /\ admin.target # Blank
       => /\ ~Groups!Ungrouped(held[admin.sub].plan)
          /\ \A i \in UpActive : i = admin.sub
    /\ UpActive # {} => group \in UpNames

\* As the clock stays below LastTime, an upgraded row that is active is one
\* that has not ended.
LEMMA UpActiveFacts ==
    ASSUME OrdersInv, UpgradeInv, Long
    PROVE  /\ Groups!ActiveUpgraded(clock) = UpActive
           /\ Groups!Due(clock) = {}
<1>0. /\ terms \in OrderSettings /\ clock \in Int /\ clock <= Groups!LastTime
      /\ held \in [Groups!Ids -> HeldRow]
  BY DEF OrdersInv, OrdersHeld, OrdersTyped, OrdersRest
<1>1. /\ clock \in Int /\ Groups!LastTime \in Int /\ clock <= Groups!LastTime
      /\ held \in [Groups!Ids -> HeldRow]
  <2>1. Groups!LastTime \in Nat
    BY <1>0, TermsFacts
  <2> QED
    BY <1>0, <2>1
<1>2. \A i \in Groups!Ids : held[i].end \in Int
  BY <1>1 DEF HeldRow
<1>3. \A i \in Groups!Ids : held[i].status = "active" => held[i].end > clock
  BY <1>1, <1>2 DEF UpgradeInv
<1>4. \A i : i \in Groups!ActiveUpgraded(clock) <=> i \in UpActive
  BY <1>3, BlankActive DEF UpActive, Groups!Rows
<1>5. \A i \in Groups!Ids : held[i].status = "active" => ~(held[i].end <= clock)
  BY <1>1, <1>2, <1>3
<1> QED
  BY <1>4, <1>5 DEF Groups!Due, Groups!Rows

LEMMA UpgradeStays ==
    ASSUME OrdersInv, UpgradeInv, [Groups!Next]_orderVars PROVE UpgradeInv'
<1>1. CASE UNCHANGED orderVars
  <2>1. UNCHANGED <<terms, held, group, clock, admin, job>>
    BY <1>1 DEF orderVars
  <2>2. /\ Long' <=> Long
        /\ Groups!LastTime' = Groups!LastTime /\ UpActive' = UpActive /\ UpNames' = UpNames
    BY <2>1, ConstantTerms DEF Long, Groups!LastTime, UpActive, UpNames
  <2> QED
    BY <2>1, <2>2, ConstantTerms DEF UpgradeInv
<1>2. CASE Groups!Next
  <2>1. OrdersHeld /\ OrdersRest /\ OrdersTyped /\ OrderStep
    BY <1>2, NextOrderStep DEF OrdersInv, OrdersHeld
  <2>2. terms' = terms /\ clock' \in Int /\ clock <= clock' /\ clock \in Int
    BY <1>2, <2>1, RestKeeps DEF OrdersTyped
  <2>3. /\ Long' <=> Long
        /\ Groups!LastTime' = Groups!LastTime /\ UpNames' = UpNames
        /\ Groups!Ids' = Groups!Ids /\ \A p : Groups!Ungrouped(p)' <=> Groups!Ungrouped(p)
    BY <2>2, ConstantTerms DEF Long, Groups!LastTime, UpNames
  <2> SUFFICES ASSUME Long PROVE UpgradeInv'
    BY <2>3 DEF UpgradeInv
  <2>4. /\ clock >= 0 /\ job.at = "idle"
        /\ \A i \in Groups!Ids : held[i].status = "active" => held[i].end > Groups!LastTime
        /\ admin.at = "checked" /\ admin.target # Blank
           => /\ ~Groups!Ungrouped(held[admin.sub].plan)
              /\ \A i \in UpActive : i = admin.sub
        /\ UpActive # {} => group \in UpNames
    BY DEF UpgradeInv
  <2>5. clock' >= 0
    BY <2>2, <2>4
  <2>6. Groups!ActiveUpgraded(clock) = UpActive /\ Groups!Due(clock) = {}
    BY UpActiveFacts
  <2>7. /\ held \in [Groups!Ids -> HeldRow] /\ Apart
        /\ Groups!NoAdmin.at = "idle"
    BY <2>1, TypeFacts
  <2>8. CASE UNCHANGED <<held, group, admin, job>>
    <3>1. UpActive' = UpActive
      BY <2>3, <2>8 DEF UpActive
    <3> QED
      BY <2>3, <2>4, <2>5, <2>8, <3>1 DEF UpgradeInv
  <2>9. ASSUME NEW p \in Groups!Plans, MadeOne(p) PROVE UpgradeInv'
    <3>1. PICK i \in Groups!Ids :
              /\ held[i].status = "none" /\ held'[i].status = "active"
              /\ held'[i].plan = p /\ held'[i].end = clock + terms.term[p]
              /\ \A j \in Groups!Ids : j # i => held'[j] = held[j]
      BY <2>1, <2>9, MadeRow
    <3>2. held'[i].end > Groups!LastTime
      <4>1. terms.term[p] \in Nat /\ Groups!LastTime \in Nat
        BY <2>1, TermsFacts DEF OrdersTyped
      <4> QED
        BY <2>2, <2>4, <3>1, <4>1 DEF Long
    <3>3. \A j \in Groups!Ids : held'[j].status = "active" => held'[j].end > Groups!LastTime
      BY <2>4, <3>1, <3>2
    <3>4. UNCHANGED <<admin, job>> /\ Groups!UserFree
      BY <2>9 DEF MadeOne
    <3>5. ~(admin.at = "checked" /\ admin.target # Blank)
      BY <2>4, <3>4 DEF Groups!UserFree
    <3>6. \A j \in UpActive' : j \in UpActive \/ (j = i /\ Upgrade[p] # Blank)
      BY <2>3, <3>1 DEF UpActive
    <3>7. UpActive' # {} => group' \in UpNames
      <4>1. CASE Upgrade[p] # Blank /\ group' = Upgrade[p]
        BY <4>1 DEF UpNames
      <4>2. CASE Upgrade[p] = Blank /\ group' = group
        BY <2>4, <3>6, <4>2
      <4> QED
        BY <2>9, <4>1, <4>2, BlankMade
    <3> QED
      BY <2>3, <2>4, <2>5, <3>3, <3>4, <3>5, <3>7 DEF UpgradeInv
  <2>10. ASSUME NEW i \in Groups!Ids, Groups!AdminChecks(i) PROVE UpgradeInv'
    <3>1. /\ UNCHANGED <<held, group, job>>
          /\ admin' = [at |-> "checked", sub |-> i, target |-> Groups!DowngradeTarget(i)]
      BY <2>10 DEF Groups!AdminChecks
    <3>2. admin'.sub = i /\ admin'.target = Groups!DowngradeTarget(i)
      BY <3>1
    <3>3. UpActive' = UpActive
      BY <2>3, <3>1 DEF UpActive
    <3>4. admin'.target # Blank
          => /\ ~Groups!Ungrouped(held[i].plan)
             /\ \A j \in UpActive : j = i
      BY <2>6, <3>2, BlankTarget
    <3> QED
      BY <2>3, <2>4, <2>5, <3>1, <3>2, <3>3, <3>4 DEF UpgradeInv
  <2>11. CASE AdminFails
    <3>1. UNCHANGED <<held, group, job>> /\ admin'.at = "idle"
      BY <2>7, <2>11 DEF AdminFails
    <3>2. UpActive' = UpActive
      BY <2>3, <3>1 DEF UpActive
    <3> QED
      BY <2>3, <2>4, <2>5, <3>1, <3>2 DEF UpgradeInv
  <2>12. CASE AdminEnds
    <3>1. PICK i \in Groups!Ids, w \in HeldRow :
             /\ i = admin.sub /\ held' = [held EXCEPT ![i] = w]
             /\ w.status \in {"cancelled", "deleted"}
      BY <2>7, <2>12 DEF AdminEnds, Apart, Groups!Rows
    <3>2. /\ job' = job /\ admin'.at = "idle" /\ admin.at = "checked"
          /\ held'[i].status # "active" /\ \A j \in Groups!Ids : j # i => held'[j] = held[j]
      BY <2>7, <2>12, <3>1 DEF AdminEnds
    <3>3. \A j \in UpActive' : j \in UpActive /\ j # i
      BY <2>3, <3>2 DEF UpActive
    <3>4. \A j \in Groups!Ids : held'[j].status = "active" => held'[j].end > Groups!LastTime
      BY <2>4, <3>2
    <3>5. UpActive' # {} => group' \in UpNames
      <4>1. CASE admin.target = Blank /\ group' = group
        BY <2>4, <3>3, <4>1
      <4>2. CASE admin.target # Blank
        BY <2>4, <3>1, <3>2, <3>3, <4>2
      <4> QED
        BY <2>12, <4>1, <4>2, BlankEnds
    <3> QED
      BY <2>3, <2>4, <2>5, <3>2, <3>4, <3>5 DEF UpgradeInv
  <2>13. ~Groups!ExpireReads /\ ~Groups!ExpireMarks /\ ~JobFails /\ ~JobEnds
    BY <2>4, <2>6 DEF Groups!ExpireReads, Groups!ExpireMarks, JobFails, JobEnds
  <2> QED
    BY <2>1, <2>8, <2>9, <2>10, <2>11, <2>12, <2>13 DEF OrderStep
<1> QED
  BY <1>1, <1>2

LEMMA UpgradeInvImplies ==
    ASSUME OrdersInv, UpgradeInv PROVE Groups!UpgradeKept
<1> SUFFICES ASSUME Long, Groups!ActiveUpgraded(clock) # {}
             PROVE  group \in {Upgrade[p] : p \in Groups!Plans} \ {""}
  BY DEF Groups!UpgradeKept, Long, Groups!Term
<1>1. group \in UpNames
  BY UpActiveFacts DEF UpgradeInv
<1> QED
  BY <1>1 DEF UpNames, Blank

LEMMA UpgradeInit == ASSUME Groups!Init PROVE UpgradeInv
<1>1. \A i \in Groups!Ids : held[i].status = "none"
  BY DEF Groups!Init, Groups!NoSub
<1>2. UpActive = {}
  BY <1>1 DEF UpActive
<1>3. job.at = "idle" /\ admin.at = "idle" /\ clock = 0
  BY DEF Groups!Init, Groups!NoJob, Groups!NoAdmin
<1> QED
  BY <1>1, <1>2, <1>3 DEF UpgradeInv

-----------------------------------------------------------------------------
(* Only time ends a subscription, and every plan leads back to BaseGroup.  *)

Reverting ==
    /\ Groups!AdminOps = 0
    /\ \A p \in Groups!Plans : Groups!Ungrouped(p) \/ terms.downgrade[p] = BaseGroup

\* An active subscription whose end changes the group.
Grouping(i) == held[i].status = "active" /\ ~Groups!Ungrouped(held[i].plan)

RevertInv ==
    Reverting =>
    /\ admin.at = "idle"
    /\ group # BaseGroup => \E i \in Groups!Ids : Grouping(i)
    /\ job.at = "marked" /\ job.last = 0
       => \/ \E i \in Groups!Ids : Grouping(i) /\ i \notin job.due
          \/ \A i \in job.due : Groups!Ungrouped(held[i].plan)

LEMMA RevertStays ==
    ASSUME OrdersInv, RevertInv, [Groups!Next]_orderVars PROVE RevertInv'
<1>1. CASE UNCHANGED orderVars
  <2>1. UNCHANGED <<terms, held, group, admin, job>>
    BY <1>1 DEF orderVars
  <2>2. /\ Reverting' <=> Reverting
        /\ \A i : Grouping(i)' <=> Grouping(i)
    BY <2>1, ConstantTerms DEF Reverting, Groups!AdminOps, Grouping
  <2> QED
    BY <2>1, <2>2, ConstantTerms DEF RevertInv
<1>2. CASE Groups!Next
  <2>1. OrdersHeld /\ OrdersRest /\ OrdersTyped /\ OrderStep
    BY <1>2, NextOrderStep DEF OrdersInv, OrdersHeld
  <2>2. terms' = terms
    BY <1>2 DEF Groups!Next
  <2>3. /\ Reverting' <=> Reverting
        /\ Groups!Ids' = Groups!Ids /\ \A p : Groups!Ungrouped(p)' <=> Groups!Ungrouped(p)
    BY <2>2, ConstantTerms DEF Reverting, Groups!AdminOps
  <2> SUFFICES ASSUME Reverting PROVE RevertInv'
    BY <2>3 DEF RevertInv
  <2>4. /\ admin.at = "idle"
        /\ group # BaseGroup => \E i \in Groups!Ids : Grouping(i)
        /\ job.at = "marked" /\ job.last = 0
           => \/ \E i \in Groups!Ids : Grouping(i) /\ i \notin job.due
              \/ \A i \in job.due : Groups!Ungrouped(held[i].plan)
    BY DEF RevertInv
  <2>5. /\ held \in [Groups!Ids -> HeldRow] /\ Apart
        /\ Groups!NoJob.at = "idle" /\ job \in JobRow /\ Groups!NoJob \in JobRow
    BY <2>1, TypeFacts
  <2>6. ASSUME held' = held PROVE \A i \in Groups!Ids : Grouping(i)' <=> Grouping(i)
    BY <2>3, <2>6 DEF Grouping
  <2>7. CASE UNCHANGED <<held, group, admin, job>>
    BY <2>3, <2>4, <2>6, <2>7 DEF RevertInv
  <2>8. ASSUME NEW p \in Groups!Plans, MadeOne(p) PROVE RevertInv'
    <3>1. PICK i \in Groups!Ids :
              /\ held[i].status = "none" /\ held'[i].status = "active"
              /\ held'[i].plan = p
              /\ \A j \in Groups!Ids : j # i => held'[j] = held[j]
      BY <2>1, <2>8, MadeRow
    <3>2. UNCHANGED <<admin, job>>
      BY <2>8 DEF MadeOne
    <3>3. \A j \in Groups!Ids : Grouping(j) => Grouping(j)'
      BY <2>3, <3>1 DEF Grouping
    <3>4. group' # BaseGroup => \E j \in Groups!Ids : Grouping(j)'
      <4>1. CASE Upgrade[p] # Blank /\ group' = Upgrade[p]
        BY <2>3, <3>1, <4>1, BlankUpgrade DEF Grouping
      <4>2. CASE Upgrade[p] = Blank /\ group' = group
        BY <2>4, <3>3, <4>2
      <4> QED
        BY <2>8, <4>1, <4>2, BlankMade
    <3>5. \A j \in job.due : held'[j] = held[j]
      BY <2>5, <3>1 DEF Apart, Groups!Rows
    <3>6. job'.at = "marked" /\ job'.last = 0
          => \/ \E j \in Groups!Ids : Grouping(j)' /\ j \notin job'.due
             \/ \A j \in job'.due : Groups!Ungrouped(held'[j].plan)
      BY <2>4, <3>2, <3>3, <3>5
    <3> QED
      BY <2>3, <2>4, <3>2, <3>4, <3>6 DEF RevertInv
  <2>9. ~AdminFails /\ ~AdminEnds /\ ~\E i \in Groups!Ids : Groups!AdminChecks(i)
    <3>1. left.admin <= 0 /\ left.admin \in Int
      BY <2>1 DEF OrdersRest, OrdersTyped, Reverting
    <3> QED
      BY <2>4, <3>1 DEF AdminFails, AdminEnds, Groups!AdminChecks, Groups!AdminOp
  <2>10. CASE Groups!ExpireReads
    <3>1. UNCHANGED <<held, group, admin>> /\ job' = [Groups!NoJob EXCEPT !.at = "read", !.now = clock]
      BY <2>10 DEF Groups!ExpireReads
    <3>2. job'.at = "read"
      BY <2>5, <3>1 DEF JobRow
    <3> QED
      BY <2>3, <2>4, <2>6, <3>1, <3>2 DEF RevertInv
  <2>11. CASE Groups!ExpireMarks
    <3>1. /\ job'.due = Groups!Due(job.now)
          /\ \/ job'.last # 0
             \/ Groups!ActiveUpgraded(job.now) # {} \/ EndedRows = {}
          /\ UNCHANGED <<held, group, admin>>
      BY <2>1, <2>11, MarksFacts
    <3>2. ASSUME NEW i \in Groups!ActiveUpgraded(job.now)
          PROVE  i \in Groups!Ids /\ Grouping(i) /\ i \notin job'.due
      <4>1. /\ i \in Groups!Rows /\ held[i].status = "active" /\ held[i].end > job.now
            /\ Upgrade[held[i].plan] # Blank
        BY BlankActive
      <4>2. i \in Groups!Ids
        BY <4>1 DEF Groups!Rows
      <4>3. held[i].end \in Int /\ job.now \in Int
        BY <2>5, <4>2 DEF HeldRow, JobRow
      <4>4. ~(held[i].end <= job.now)
        BY <4>1, <4>3
      <4>5. i \notin job'.due
        BY <3>1, <4>4 DEF Groups!Due
      <4> QED
        BY <4>1, <4>2, <4>5, BlankUpgrade DEF Grouping
    <3>3. ASSUME EndedRows = {}, NEW i \in job'.due PROVE Groups!Ungrouped(held[i].plan)
      BY <3>1, <3>3 DEF EndedRows, Groups!Due
    <3>4. job'.last = 0
          => \/ \E i \in Groups!Ids : Grouping(i) /\ i \notin job'.due
             \/ \A i \in job'.due : Groups!Ungrouped(held[i].plan)
      BY <3>1, <3>2, <3>3
    <3> QED
      BY <2>3, <2>4, <2>6, <3>1, <3>4 DEF RevertInv
  <2>12. CASE JobFails
    BY <2>3, <2>4, <2>5, <2>6, <2>12 DEF RevertInv, JobFails
  <2>13. CASE JobEnds
    <3>1. /\ admin' = admin /\ job'.at = "idle" /\ job.at = "marked"
          /\ \A i \in Groups!Ids : i \notin job.due => held'[i] = held[i]
      BY <2>5, <2>13 DEF JobEnds
    <3>2. group' # BaseGroup => \E i \in Groups!Ids : Grouping(i)'
      <4>1. CASE job.last = 0
        <5>1. group' = group
          BY <2>13, <4>1 DEF JobEnds
        <5>2. group # BaseGroup => \E i \in Groups!Ids : Grouping(i) /\ i \notin job.due
          BY <2>4, <3>1, <4>1 DEF Grouping
        <5> QED
          BY <2>3, <3>1, <5>1, <5>2 DEF Grouping
      <4>2. CASE job.last # 0
        <5>1. job.last \in Groups!Ids /\ ~Groups!Ungrouped(held[job.last].plan)
          BY <2>5, <4>2 DEF Apart, Used
        <5>2. held[job.last].plan \in Groups!Plans
          BY <2>5, <5>1 DEF HeldRow
        <5>3. terms.downgrade[held[job.last].plan] = BaseGroup
          BY <5>1, <5>2 DEF Reverting
        <5>4. Groups!RevertTo(job.last) = BaseGroup
          BY <5>3, BlankRevert, BlankBase
        <5>5. group' = BaseGroup
          BY <2>13, <4>2, <5>4, BlankJob, BlankBase
        <5> QED
          BY <5>5
      <4> QED
        BY <4>1, <4>2
    <3> QED
      BY <2>3, <2>4, <3>1, <3>2 DEF RevertInv
  <2> QED
    BY <2>1, <2>7, <2>8, <2>9, <2>10, <2>11, <2>12, <2>13 DEF OrderStep
<1> QED
  BY <1>1, <1>2

LEMMA RevertInvImplies ==
    ASSUME OrdersInv, RevertInv PROVE Groups!GroupReverted
<1> SUFFICES ASSUME Groups!AdminOps = 0,
                    \A p \in Groups!Plans : Groups!Ungrouped(p) \/ terms.downgrade[p] = BaseGroup,
                    \A i \in Groups!Rows : held[i].status # "active"
             PROVE  group = BaseGroup
  BY DEF Groups!GroupReverted, Groups!Downgrade
<1>1. Reverting
  BY DEF Reverting
<1>2. \A i \in Groups!Ids : ~Grouping(i)
  BY DEF Grouping, Groups!Rows
<1> QED
  BY <1>1, <1>2 DEF RevertInv

LEMMA RevertInit == ASSUME Groups!Init PROVE RevertInv
<1>1. job.at = "idle" /\ admin.at = "idle" /\ group = BaseGroup
  BY DEF Groups!Init, Groups!NoJob, Groups!NoAdmin
<1> QED
  BY <1>1 DEF RevertInv

\* However purchases, the administrator's endings and the expiration task
\* interleave: while only the administrator ends subscriptions, a user with an
\* active upgraded one is in a group some plan gives; and where only time ends
\* them and every plan leads back to the first group, a user without an active
\* subscription is back in it once the task has run.
THEOREM GroupsFollowPlans == MCSpec => []GroupFollowsPlans
<1> DEFINE Inv == OrdersInv /\ UpgradeInv /\ RevertInv
<1>1. MCInit => Inv
  BY OrdersInvInit, UpgradeInit, RevertInit DEF MCInit
<1>2. Inv /\ [MCNext]_<<part, vars, orderVars>> => Inv'
  BY OrdersInvStays, UpgradeStays, RevertStays, MCStepsOrders
<1>3. Inv => GroupFollowsPlans
  BY UpgradeInvImplies, RevertInvImplies DEF GroupFollowsPlans
<1> QED
  BY <1>1, <1>2, <1>3, PTL DEF MCSpec

=============================================================================
