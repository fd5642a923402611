------------------------------ MODULE MCLimits ------------------------------
(***************************************************************************)
(* What bounds the use of the service by a user: the limiters of calls,    *)
(* the limit on successful model requests, and the wallet.  A behaviour is *)
(* one of RateLimit, of ModelRateLimit or of QuotaStore, with one of the   *)
(* settings below: the others stand still in an initial state.             *)
(***************************************************************************)
EXTENDS RateLimit

CONSTANTS Requests, ModelMax, ModelDuration, ModelMaxTime

ASSUME ModelConstantsOK ==
  /\ IsFiniteSet(Requests) /\ Requests # {}
  /\ ModelMax \in Nat \ {0} /\ ModelDuration \in Nat /\ ModelMaxTime \in Nat

\* The constants of QuotaStore; Asks are its requests.
CONSTANTS Asks, Kind, Amount, InitQuota, Settings

VARIABLES part, redis, together, clock, list, ends, check, pc, stamp, successes, denied

modelVars == <<redis, together, clock, list, ends, check, pc, stamp, successes, denied>>

VARIABLES setting, db, cache, batch, flush, at, snap, lag, budget

storeVars == <<setting, db, cache, batch, flush, at, snap, lag, budget>>

Model == INSTANCE ModelRateLimit WITH
  Max <- ModelMax, Duration <- ModelDuration, MaxTime <- ModelMaxTime,
  now <- clock, refused <- denied

Store == INSTANCE QuotaStore WITH Requests <- Asks

ASSUME StoreAssumption == Store!SettingsAssumption

-----------------------------------------------------------------------------
\* The requests on the wallet are named for what they do.
KindOf == [r \in Asks |->
  CASE r \in {"reserve1", "reserve2", "reserve3"} -> "reserve"
    [] r = "credit1" -> "credit"
    [] r = "topup" -> "creditdb"
    [] r = "debit" -> "debit"
    [] OTHER -> "read"]

AmountOf == [r \in Asks |-> IF r = "reserve2" THEN 2 ELSE 1]

\* A batch, and a copy that is filled when it is needed; everything may fail
\* once.
Batching ==
  [requests |-> Asks \ {"reserve3", "read"}, ceiling |-> 4,
   redis |-> TRUE, batch |-> TRUE, warm |-> FALSE, expiries |-> 1,
   redisFaults |-> 1, dbFaults |-> 1, crashes |-> 1]

\* Changes written at once, and a copy that may expire.
AtOnce ==
  [Batching EXCEPT !.requests = Asks \ {"reserve3", "topup"},
                   !.batch = FALSE, !.warm = TRUE]

\* A copy that stays, and a database that fails.
Staying ==
  [AtOnce EXCEPT !.requests = Asks \ {"debit"}, !.expiries = 0,
                 !.redisFaults = 0, !.dbFaults = 2, !.crashes = 0]

\* No Redis; the ceiling has room for one credit.
NoRedis ==
  [AtOnce EXCEPT !.requests = Asks \ {"debit", "read"}, !.ceiling = 3,
                 !.redis = FALSE, !.warm = FALSE, !.expiries = 0,
                 !.redisFaults = 0]

StoreSettings == {Batching, AtOnce, Staying, NoRedis}

-----------------------------------------------------------------------------
MCInit ==
  /\ part \in {"limiter", "model", "store"}
  /\ Init /\ (part # "limiter" => limiter = "queue")
  /\ Model!Init /\ (part # "model" => redis /\ together)
  /\ Store!Init /\ (part # "store" => setting = CHOOSE s \in Settings : TRUE)

MCNext ==
  /\ \/ part = "limiter" /\ Next /\ UNCHANGED <<modelVars, storeVars>>
     \/ part = "model" /\ Model!Next /\ UNCHANGED <<vars, storeVars>>
     \/ part = "store" /\ Store!Next /\ UNCHANGED <<vars, modelVars>>
  /\ UNCHANGED part

MCSpec == MCInit /\ [][MCNext]_<<part, vars, modelVars, storeVars>>

-----------------------------------------------------------------------------
\* How far each limiter lets a user go: the queue Max calls in any period, the
\* fixed window twice Max, the bucket what its rate and size allow, and the limit
\* on successes is exceeded by fewer requests than run together.
LimitsHold ==
  /\ AtMostMax
  /\ AtMostTwice
  /\ BucketConforms
  /\ Model!ExceededByConcurrency

\* Nobody is refused early: a refusal means that the limit is used up, and with
\* Redis that Max requests succeeded in the last period.
RefusedOnlyAtLimit == RefusedMeansFull /\ Model!RefusedMeansSucceeded

\* A reservation is covered: the balance is negative through debits alone, as
\* long as the copy stays or there is none (TryReserveUserQuota), and credits
\* that are written at once keep the row under the ceiling (increaseUserQuota).
WalletCovered == Store!WalletCovered

\* A copy that stays agrees with the balance whenever nothing is on its way
\* (persistUserQuotaDelta and its compensation).
CopyAgrees == Store!CopyAgrees

\* A request changes the balance once, by its amount, or not at all, and only
\* what waits in a batch is lost (batchUpdate): the refinement of WalletLedger.
ImplementsLedger == Store!ImplementsLedger
=============================================================================
