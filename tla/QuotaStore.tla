----------------------------- MODULE QuotaStore -----------------------------
(***************************************************************************)
(* The wallet of a user: the row in the database, the copy in Redis that   *)
(* reservations are made on, and the batch of changes a process has not    *)
(* written yet (model/quota_reserve.go, user_cache.go, user.go, utils.go). *)
(*                                                                         *)
(* A script in Redis and a statement on the row are each one step; between *)
(* two of them other requests run, the copy may expire, the store may fail *)
(* and the process may die.                                                *)
(***************************************************************************)
EXTENDS Integers

CONSTANTS
    Requests,    \* requests on the wallet
    Kind,        \* what each does: "reserve", "credit", "creditdb", "debit" or
                 \* "read"
    Amount,      \* and with how much
    InitQuota,   \* the balance at first
    Settings     \* the settings a behaviour may run with, records of the
                 \* fields below

\* What is assumed of them.
SettingsAssumption ==
    /\ Kind \in [Requests -> {"reserve", "credit", "creditdb", "debit", "read"}]
    /\ Amount \in [Requests -> Nat]
    /\ InitQuota \in Nat
    /\ \A s \in Settings :
          /\ s.requests \subseteq Requests
          /\ s.ceiling \in Nat /\ InitQuota <= s.ceiling
          /\ s.redis \in BOOLEAN /\ s.batch \in BOOLEAN /\ s.warm \in BOOLEAN
          /\ s.expiries \in Nat /\ s.redisFaults \in Nat
          /\ s.dbFaults \in Nat /\ s.crashes \in Nat

VARIABLE setting  \* the one of this behaviour; it never changes

Made == setting.requests            \* those of Requests that are made
MaxWalletQuota == setting.ceiling   \* the ceiling of a wallet
Redis == setting.redis              \* RedisEnabled
Batch == setting.batch              \* BatchUpdateEnabled
Warm == setting.warm                \* the copy is in Redis at first
Expiries == setting.expiries        \* times the copy may expire
RedisFaults == setting.redisFaults  \* commands to Redis that may fail
DBFaults == setting.dbFaults        \* statements that may fail
Crashes == setting.crashes          \* times the process may die

VARIABLES
    db,      \* users.quota
    cache,   \* the copy in Redis
    batch,   \* the sum waiting in batchUpdateStores
    flush,   \* the sum batchUpdate has taken and not written
    at,      \* where each request is
    snap,    \* the quota a request has read to fill the copy with
    lag,     \* what its goroutine has still to add to the copy
    budget   \* faults left

vars == <<setting, db, cache, batch, flush, at, snap, lag, budget>>

Absent == [has |-> FALSE, quota |-> 0]
Copy(n) == [has |-> TRUE, quota |-> n]

Init ==
    /\ setting \in Settings
    /\ db = InitQuota
    /\ cache = IF Redis /\ Warm THEN Copy(InitQuota) ELSE Absent
    /\ batch = 0
    /\ flush = 0
    /\ at = [r \in Requests |-> "start"]
    /\ snap = [r \in Requests |-> 0]
    /\ lag = [r \in Requests |-> 0]
    /\ budget = [expiry |-> Expiries, redis |-> RedisFaults, db |-> DBFaults,
                 crash |-> Crashes]

Spend(what) == budget[what] > 0 /\ budget' = [budget EXCEPT ![what] = @ - 1]

Go(r, place) == at' = [at EXCEPT ![r] = place]

-----------------------------------------------------------------------------
(* Reservations: TryReserveUserQuota.                                      *)

\* The condition of userQuotaReserveScript.
Enough(n) == cache.quota >= n

\* userQuotaReserveScript; its first run may be followed by a hydration, its
\* second not.
ReserveInCache(r) ==
    /\ Redis
    /\ Kind[r] = "reserve"
    /\ at[r] \in {"start", "again"}
    /\ \/ /\ cache.has
          /\ Enough(Amount[r])
          /\ cache' = Copy(cache.quota - Amount[r])
          /\ Go(r, "persist")
          /\ UNCHANGED budget
       \/ /\ cache.has
          /\ ~Enough(Amount[r])
          /\ Go(r, "refused")
          /\ UNCHANGED <<cache, budget>>
       \/ /\ ~cache.has
          /\ Go(r, IF at[r] = "start" THEN "hydrate" ELSE "database")
          /\ UNCHANGED <<cache, budget>>
       \/ /\ Spend("redis")
          /\ Go(r, "database")
          /\ UNCHANGED cache
    /\ UNCHANGED <<db, batch, flush, snap, lag>>

\* Redis is not enabled.
ReserveWithoutRedis(r) ==
    /\ ~Redis
    /\ Kind[r] = "reserve"
    /\ at[r] = "start"
    /\ Go(r, "database")
    /\ UNCHANGED <<db, cache, batch, flush, snap, lag, budget>>

\* A bug this model can tell: the row is changed without a condition.
CoveredAlways(n) == n \in Nat

\* The condition of reserveUserQuotaDB.
Covered(n) == db >= n

\* reserveUserQuotaDB.
ReserveInDatabase(r) ==
    /\ at[r] = "database"
    /\ \/ /\ Covered(Amount[r])
          /\ db' = db - Amount[r]
          /\ Go(r, "done")
          /\ UNCHANGED budget
       \/ /\ ~Covered(Amount[r])
          /\ Go(r, "refused")
          /\ UNCHANGED <<db, budget>>
       \/ /\ Spend("db")
          /\ Go(r, "failed")
          /\ UNCHANGED db
    /\ UNCHANGED <<cache, batch, flush, snap, lag>>

\* persistUserQuotaDelta.
Persist(r) ==
    /\ at[r] = "persist"
    /\ \/ /\ Batch
          /\ batch' = batch - Amount[r]
          /\ Go(r, "done")
          /\ UNCHANGED <<db, budget>>
       \/ /\ ~Batch
          /\ db' = db - Amount[r]
          /\ Go(r, "done")
          /\ UNCHANGED <<batch, budget>>
       \/ /\ ~Batch
          /\ Spend("db")
          /\ Go(r, "compensate")
          /\ UNCHANGED <<db, batch>>
    /\ UNCHANGED <<cache, flush, snap, lag>>

\* What is added to the copy when the row could not be written.
\* A bug this model can tell: nothing is.
CompensationNone(n) == 0
Compensation(n) == n

Compensate(r) ==
    /\ at[r] = "compensate"
    /\ \/ /\ cache' = IF cache.has
                      THEN Copy(cache.quota + Compensation(Amount[r]))
                      ELSE cache
          /\ UNCHANGED budget
       \/ Spend("redis") /\ UNCHANGED cache
    /\ Go(r, "failed")
    /\ UNCHANGED <<db, batch, flush, snap, lag>>

-----------------------------------------------------------------------------
(* The copy: GetUserCache.                                                 *)

\* A request reads the copy, and the row when there is no copy.
ReadWallet(r) ==
    /\ Redis
    /\ Kind[r] = "read"
    /\ at[r] = "start"
    /\ \/ /\ Go(r, IF cache.has THEN "done" ELSE "hydrate")
          /\ UNCHANGED budget
       \/ Spend("redis") /\ Go(r, "hydrate")
    /\ UNCHANGED <<db, cache, batch, flush, snap, lag>>

\* Where a hydration leads to.
Onward(r) == IF Kind[r] = "read" THEN "done" ELSE "again"

HydrateReads(r) ==
    /\ at[r] = "hydrate"
    /\ \/ /\ snap' = [snap EXCEPT ![r] = db]
          /\ Go(r, "hydrated")
          /\ UNCHANGED budget
       \/ /\ Spend("db")
          /\ Go(r, IF Kind[r] = "read" THEN "failed" ELSE "database")
          /\ UNCHANGED snap
    /\ UNCHANGED <<db, cache, batch, flush, lag>>

\* populateUserCache: the quota is written when the hash has none.
Filled(n) == IF cache.has THEN cache ELSE Copy(n)

HydrateWrites(r) ==
    /\ at[r] = "hydrated"
    /\ \/ cache' = Filled(snap[r]) /\ UNCHANGED budget
       \/ Spend("redis") /\ UNCHANGED cache
    /\ Go(r, Onward(r))
    /\ snap' = [snap EXCEPT ![r] = 0]
    /\ UNCHANGED <<db, batch, flush, lag>>

\* The copy expires.
CacheExpires ==
    /\ cache.has
    /\ Spend("expiry")
    /\ cache' = Absent
    /\ UNCHANGED <<db, batch, flush, at, snap, lag>>

-----------------------------------------------------------------------------
(* Credits and debits: IncreaseUserQuota and DecreaseUserQuota.  A         *)
(* goroutine of each changes the copy.                                     *)

\* The condition of increaseUserQuota.
Room(n) == db <= MaxWalletQuota - n

\* The credit goes to the batch.
Batched(r) == Kind[r] = "credit" /\ Batch

\* The goroutine is started once the credit is in the row or the batch.
IncreaseUserQuota(r) ==
    /\ Kind[r] \in {"credit", "creditdb"}
    /\ at[r] = "start"
    /\ \/ /\ Batched(r)
          /\ batch' = batch + Amount[r]
          /\ lag' = [lag EXCEPT ![r] = IF Redis THEN Amount[r] ELSE 0]
          /\ Go(r, "done")
          /\ UNCHANGED <<db, budget>>
       \/ /\ ~Batched(r)
          /\ Room(Amount[r])
          /\ db' = db + Amount[r]
          /\ lag' = [lag EXCEPT ![r] = IF Redis THEN Amount[r] ELSE 0]
          /\ Go(r, "done")
          /\ UNCHANGED <<batch, budget>>
       \/ /\ ~Batched(r)
          /\ \/ ~Room(Amount[r]) /\ UNCHANGED budget
             \/ Spend("db")
          /\ Go(r, "refused")
          /\ UNCHANGED <<db, batch, lag>>
    /\ UNCHANGED <<cache, flush, snap>>

\* The goroutine of a debit is started before the row is changed.
DecreaseStarts(r) ==
    /\ Kind[r] = "debit"
    /\ at[r] = "start"
    /\ lag' = [lag EXCEPT ![r] = IF Redis THEN -Amount[r] ELSE 0]
    /\ Go(r, "debit")
    /\ UNCHANGED <<db, cache, batch, flush, snap, budget>>

DecreaseUserQuota(r) ==
    /\ at[r] = "debit"
    /\ \/ /\ Batch
          /\ batch' = batch - Amount[r]
          /\ Go(r, "done")
          /\ UNCHANGED <<db, budget>>
       \/ /\ ~Batch
          /\ db' = db - Amount[r]
          /\ Go(r, "done")
          /\ UNCHANGED <<batch, budget>>
       \/ /\ ~Batch
          /\ Spend("db")
          /\ Go(r, "failed")
          /\ UNCHANGED <<db, batch>>
    /\ UNCHANGED <<cache, flush, snap, lag>>

\* userQuotaDeltaScript in the goroutine: a hash that is not there is left so.
LagApplies(r) ==
    /\ lag[r] # 0
    /\ \/ /\ cache' = IF cache.has THEN Copy(cache.quota + lag[r]) ELSE cache
          /\ UNCHANGED budget
       \/ Spend("redis") /\ UNCHANGED cache
    /\ lag' = [lag EXCEPT ![r] = 0]
    /\ UNCHANGED <<db, batch, flush, at, snap>>

-----------------------------------------------------------------------------
(* The batch: batchUpdate.                                                 *)

FlushTakes ==
    /\ batch # 0
    /\ flush = 0
    /\ flush' = batch
    /\ batch' = 0
    /\ UNCHANGED <<db, cache, at, snap, lag, budget>>

\* A bug this model can tell: what was written is kept in the batch.
FlushedKept == UNCHANGED flush
Flushed == flush' = 0

FlushWrites ==
    /\ flush # 0
    /\ \/ db' = db + flush /\ UNCHANGED budget
       \/ Spend("db") /\ UNCHANGED db
    /\ Flushed
    /\ UNCHANGED <<cache, batch, at, snap, lag>>

\* The places of a request that has not ended.
Open == {"start", "again", "persist", "compensate", "database", "hydrate",
         "hydrated", "debit"}

\* The process dies with its batch, its requests and its goroutines.
Crash ==
    /\ Spend("crash")
    /\ batch' = 0
    /\ flush' = 0
    /\ at' = [r \in Requests |->
                IF at[r] \in Open \ {"start"} THEN "failed" ELSE at[r]]
    /\ snap' = [r \in Requests |-> 0]
    /\ lag' = [r \in Requests |-> 0]
    /\ UNCHANGED <<db, cache>>

-----------------------------------------------------------------------------
Step(r) ==
    \/ ReserveInCache(r)
    \/ ReserveWithoutRedis(r)
    \/ ReserveInDatabase(r)
    \/ Persist(r)
    \/ Compensate(r)
    \/ ReadWallet(r)
    \/ HydrateReads(r)
    \/ HydrateWrites(r)
    \/ IncreaseUserQuota(r)
    \/ DecreaseStarts(r)
    \/ DecreaseUserQuota(r)
    \/ LagApplies(r)

Next ==
    /\ \/ \E r \in Made : Step(r)
       \/ CacheExpires
       \/ FlushTakes
       \/ FlushWrites
       \/ Crash
    /\ UNCHANGED setting

Spec == Init /\ [][Next]_vars

-----------------------------------------------------------------------------
(* Properties.                                                             *)

\* The type invariant.
TypeOK ==
    /\ setting \in Settings
    /\ db \in Int
    /\ cache \in [has : BOOLEAN, quota : Int]
    /\ batch \in Int
    /\ flush \in Int
    /\ at \in [Requests -> Open \cup {"done", "refused", "failed"}]
    /\ snap \in [Requests -> Int]
    /\ lag \in [Requests -> Int]
    /\ budget \in [expiry : Nat, redis : Nat, db : Nat, crash : Nat]
    /\ ~Batch => batch = 0 /\ flush = 0

\* What the user has: the row and what has not reached it.
Balance == db + batch + flush

\* The requests as the ledger sees them.
Outcome ==
    [r \in Requests |-> CASE at[r] = "done" -> "accepted"
                          [] at[r] \in {"refused", "failed"} -> "refused"
                          [] OTHER -> "open"]

\* What each request adds to the balance.
DeltaOf ==
    [r \in Requests |-> CASE Kind[r] \in {"reserve", "debit"} -> -Amount[r]
                          [] Kind[r] = "read" -> 0
                          [] OTHER -> Amount[r]]

Ledger == INSTANCE WalletLedger
    WITH Delta <- DeltaOf, lossy <- Batch, bal <- Balance,
         unstored <- batch + flush, outcome <- Outcome

\* The store implements the ledger: a request changes the balance once, by its
\* amount, or not at all, through every path of TryReserveUserQuota,
\* IncreaseUserQuota, DecreaseUserQuota and batchUpdate; without a batch
\* nothing is lost in a crash.
ImplementsLedger == Ledger!Spec

\* Nothing of the wallet is on its way.
AtRest ==
    \A r \in Requests : lag[r] = 0 /\ at[r] \notin Open \ {"start"}

\* No debit has been made.
NoDebit == \A r \in Requests : Kind[r] = "debit" => at[r] = "start"

\* The copy is in Redis from the first and stays, every command reaches it, and
\* no batch is lost.
Steady ==
    /\ Redis /\ Warm
    /\ Expiries = 0 /\ RedisFaults = 0 /\ Crashes = 0
    /\ Batch => DBFaults = 0

\* A reservation is covered: the balance is negative through debits alone, as
\* long as the copy stays or there is none (TryReserveUserQuota checks and
\* deducts atomically); and without a batch, credits keep the row under the
\* ceiling (increaseUserQuota).
WalletCovered ==
    /\ (~Redis \/ Steady) /\ NoDebit => Balance >= 0
    /\ ~Batch => db <= MaxWalletQuota

\* A copy that stays agrees with the balance whenever nothing is on its way,
\* though statements on the row fail: it lets nobody spend what is not there
\* (userQuotaReserveScript trusts it), and keeps nobody from spending what is
\* (syncCreditUserQuotaCache: a credit must not be out of reach).
CopyAgrees ==
    Steady /\ NoDebit /\ AtRest => cache.has /\ cache.quota = Balance
=============================================================================
