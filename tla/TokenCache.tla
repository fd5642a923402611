----------------------------- MODULE TokenCache -----------------------------
(***************************************************************************)
(* An API token: its row, its hash in Redis on which requests are admitted *)
(* and charged, and the fence that keeps old snapshots out of Redis while  *)
(* the row is changed (model/token.go, token_cache.go, quota_reserve.go,   *)
(* UpdateToken of controller/token.go), without the batch updater.         *)
(***************************************************************************)
EXTENDS Integers

CONSTANTS
    Procs,     \* requests
    Settings,  \* what they do, the faults and the times, see Does and below
    Cost,      \* what a use reserves
    FenceTTL,  \* tokenCacheFenceSeconds
    MaxDelay   \* how long a read row or a raised fence waits for the next
               \* step of its request

VARIABLES
    setting, \* the one of Settings this behaviour has
    now,     \* the time
    row,     \* the row; version counts its changes
    hash,    \* the hash in Redis, version 0 when there is none
    fence,   \* when the fence runs out, 0 when there is none
    at,      \* where each request is
    seen,    \* the row, or the hash, it has read
    due,     \* by when it takes its next step
    since,   \* the version that was reported when it started
    acked,   \* the last version whose change was reported, and when
    spent,   \* what all uses have been charged
    budget   \* faults left

vars == <<setting, now, row, hash, fence, at, seen, due, since, acked, spent,
          budget>>

Does == setting.kind        \* "use", "status", "edit", "delete" or "drop"
Grant == setting.grant      \* the quota the token is created with
HashTTL == setting.ttl     \* tokenCacheTTLSeconds
LastTime == setting.horizon  \* the last instant of the model

NoHash == [version |-> 0, on |-> FALSE, quota |-> 0, until |-> 0]
Created == [version |-> 1, on |-> TRUE, quota |-> Grant, gone |-> FALSE]
HashOf(r) == [version |-> r.version, on |-> r.on, quota |-> r.quota,
              until |-> now + HashTTL]

Init ==
    /\ setting \in Settings
    /\ now = 0
    /\ row = Created
    /\ hash = IF setting.warm THEN HashOf(Created) ELSE NoHash
    /\ fence = 0
    /\ at = [x \in Procs |-> "start"]
    /\ seen = [x \in Procs |-> [version |-> 0, on |-> FALSE, quota |-> 0]]
    /\ due = [x \in Procs |-> LastTime]
    /\ since = [x \in Procs |-> 0]
    /\ acked = [version |-> 1, when |-> 0]
    /\ spent = 0
    /\ budget = [redis |-> setting.redis, db |-> setting.db]

Spend(what) == budget[what] > 0 /\ budget' = [budget EXCEPT ![what] = @ - 1]
Go(x, place) == at' = [at EXCEPT ![x] = place]
Snapshot(r) == [version |-> r.version, on |-> r.on, quota |-> r.quota]

-----------------------------------------------------------------------------
(* A use: ValidateUserToken, then TryReserveTokenQuota.                    *)

\* ValidateUserToken on what was read.
Verdict(s) == IF s.on /\ s.quota > 0 THEN "reserve" ELSE "refused"

ReadHash(x) ==
    /\ Does[x] = "use"
    /\ at[x] = "start"
    /\ since' = [since EXCEPT ![x] = acked.version]
    /\ \/ /\ hash # NoHash
          /\ seen' = [seen EXCEPT ![x] = Snapshot(hash)]
          /\ Go(x, Verdict(hash))
          /\ UNCHANGED budget
       \/ /\ (hash = NoHash /\ UNCHANGED budget) \/ Spend("redis")
          /\ Go(x, "row")
          /\ UNCHANGED seen
    /\ UNCHANGED <<now, row, hash, fence, due, acked, spent>>

\* The row, for the validation or to fill the hash before a reservation.
ReadRow(x) ==
    /\ at[x] \in {"row", "rowagain"}
    /\ IF row.gone
       THEN /\ Go(x, IF at[x] = "row" THEN "refused" ELSE "direct")
            /\ UNCHANGED <<seen, due>>
       ELSE /\ Go(x, IF at[x] = "row" THEN "init" ELSE "initagain")
            /\ seen' = [seen EXCEPT ![x] = Snapshot(row)]
            /\ due' = [due EXCEPT ![x] = now + MaxDelay]
    /\ UNCHANGED <<now, row, hash, fence, since, acked, spent, budget>>

\* cacheInitToken.
\* A bug this model can tell: the fence is not looked at.
PublishedUnfenced(s) ==
    IF hash # NoHash THEN [hash EXCEPT !.until = now + HashTTL] ELSE HashOf(s)

Published(s) ==
    IF fence > now THEN hash
    ELSE IF hash # NoHash THEN [hash EXCEPT !.until = now + HashTTL]
    ELSE HashOf(s)

InitToken(x) ==
    /\ at[x] \in {"init", "initagain"}
    /\ \/ hash' = Published(seen[x]) /\ UNCHANGED budget
       \/ Spend("redis") /\ UNCHANGED hash
    /\ Go(x, IF at[x] = "init" THEN Verdict(seen[x]) ELSE "reserveagain")
    /\ UNCHANGED <<now, row, fence, seen, due, since, acked, spent>>

\* The test of the script.
Enough(quota) == quota >= Cost

\* cacheTryReserveTokenQuota.
ReserveInCache(x) ==
    /\ at[x] \in {"reserve", "reserveagain"}
    /\ \/ /\ hash # NoHash
          /\ Enough(hash.quota)
          /\ hash' = [hash EXCEPT !.quota = @ - Cost]
          /\ Go(x, "persist")
          /\ UNCHANGED budget
       \/ /\ hash # NoHash
          /\ ~Enough(hash.quota)
          /\ Go(x, "refused")
          /\ UNCHANGED <<hash, budget>>
       \/ /\ hash = NoHash
          /\ Go(x, IF at[x] = "reserve" THEN "rowagain" ELSE "direct")
          /\ UNCHANGED <<hash, budget>>
       \/ /\ Spend("redis")
          /\ Go(x, "direct")
          /\ UNCHANGED hash
    /\ UNCHANGED <<now, row, fence, seen, due, since, acked, spent>>

Charged ==
    /\ row' = [row EXCEPT !.quota = @ - Cost]
    /\ spent' = spent + Cost

\* reserveTokenQuotaDB.
ReserveInRow(x) ==
    /\ at[x] = "direct"
    /\ \/ /\ ~row.gone /\ row.quota >= Cost
          /\ Charged
          /\ Go(x, "charged")
          /\ UNCHANGED budget
       \/ /\ row.gone \/ row.quota < Cost
          /\ Go(x, "refused")
          /\ UNCHANGED <<row, spent, budget>>
       \/ /\ Spend("db")
          /\ Go(x, "refused")
          /\ UNCHANGED <<row, spent>>
    /\ UNCHANGED <<now, hash, fence, seen, due, since, acked>>

\* persistTokenQuotaDelta.
Persist(x) ==
    /\ at[x] = "persist"
    /\ \/ /\ ~row.gone
          /\ Charged
          /\ Go(x, "charged")
          /\ UNCHANGED budget
       \/ /\ (row.gone /\ UNCHANGED budget) \/ Spend("db")
          /\ Go(x, "compensate")
          /\ UNCHANGED <<row, spent>>
    /\ UNCHANGED <<now, hash, fence, seen, due, since, acked>>

\* cacheApplyTokenQuotaDelta with what was taken.
GivenBack == IF hash = NoHash THEN hash ELSE [hash EXCEPT !.quota = @ + Cost]

Compensate(x) ==
    /\ at[x] = "compensate"
    /\ \/ hash' = GivenBack /\ UNCHANGED budget
       \/ Spend("redis") /\ UNCHANGED hash
    /\ Go(x, "refused")
    /\ UNCHANGED <<now, row, fence, seen, due, since, acked, spent>>

-----------------------------------------------------------------------------
(* Changes: UpdateToken, the deletions, InvalidateUserTokensCache.         *)

ReadForChange(x) ==
    /\ Does[x] # "use"
    /\ at[x] = "start"
    /\ Go(x, IF row.gone THEN "failed" ELSE "fence")
    /\ seen' = [seen EXCEPT ![x] = Snapshot(row)]
    /\ UNCHANGED <<now, row, hash, fence, due, since, acked, spent, budget>>

\* invalidateTokenCacheForMutation: the fence, then the hash; an error skips
\* the rest of it and is logged.
Raised == now + FenceTTL

RaiseFence(x) ==
    /\ at[x] = "fence"
    /\ due' = [due EXCEPT ![x] = now + MaxDelay]
    /\ \/ fence' = Raised /\ Go(x, "del") /\ UNCHANGED budget
       \/ Spend("redis") /\ Go(x, "write") /\ UNCHANGED fence
    /\ UNCHANGED <<now, row, hash, seen, since, acked, spent>>

DropHash(x) ==
    /\ at[x] = "del"
    /\ \/ hash' = NoHash /\ UNCHANGED budget
       \/ Spend("redis") /\ UNCHANGED hash
    /\ Go(x, "write")
    /\ UNCHANGED <<now, row, fence, seen, due, since, acked, spent>>

\* What the statement writes: Update writes the status and the quota that were
\* read, but for the one its caller sets.
Changed(x) ==
    [row EXCEPT
        !.version = @ + 1,
        !.on = CASE Does[x] = "status" -> FALSE
                 [] Does[x] = "edit" -> seen[x].on
                 [] OTHER -> @,
        !.quota = CASE Does[x] = "status" -> seen[x].quota
                    [] Does[x] = "edit" -> Grant
                    [] OTHER -> @,
        !.gone = @ \/ Does[x] = "delete"]

WriteRow(x) ==
    /\ at[x] = "write"
    /\ \/ /\ Does[x] # "drop" /\ ~row.gone
          /\ row' = Changed(x)
          /\ acked' = [version |-> row.version + 1, when |-> now]
          /\ Go(x, "changed")
          /\ UNCHANGED budget
       \/ /\ Does[x] = "drop" \/ row.gone
          /\ Go(x, "changed")
          /\ UNCHANGED <<row, acked, budget>>
       \/ /\ Spend("db")
          /\ Go(x, "failed")
          /\ UNCHANGED <<row, acked>>
    /\ UNCHANGED <<now, hash, fence, seen, due, since, spent>>

-----------------------------------------------------------------------------
\* Time passes; what has expired is no longer in Redis.
Tick ==
    /\ now < LastTime
    /\ \A x \in Procs :
           at[x] \in {"init", "initagain", "del", "write"} => now < due[x]
    /\ now' = now + 1
    /\ hash' = IF hash.until <= now + 1 THEN NoHash ELSE hash
    /\ fence' = IF fence <= now + 1 THEN 0 ELSE fence
    /\ UNCHANGED <<row, at, seen, due, since, acked, spent, budget>>

Step(x) ==
    \/ ReadHash(x) \/ ReadRow(x) \/ InitToken(x) \/ ReserveInCache(x)
    \/ ReserveInRow(x) \/ Persist(x) \/ Compensate(x)
    \/ ReadForChange(x) \/ RaiseFence(x) \/ DropHash(x) \/ WriteRow(x)

Next == (Tick \/ \E x \in Procs : Step(x)) /\ UNCHANGED setting

Spec == Init /\ [][Next]_vars

-----------------------------------------------------------------------------
(* Properties.                                                             *)

\* A use that starts after a change was reported is judged by the token as it
\* is after the change, if every command reaches Redis: the fence outlives the
\* change and every snapshot that was read before it (tokenCacheFenceSeconds).
ChangeIsSeen ==
    setting.redis = 0 =>
        \A x \in Procs : at[x] = "reserve" => seen[x].version >= since[x]

\* Whatever is lost, the hash is the token as some change left it: never ahead
\* of the row, and with the status of the row at the row's version.
HashIsOfTheRow ==
    /\ hash.version <= row.version
    /\ hash.version = row.version => hash.on = row.on

\* Nobody changes the token, every command reaches Redis and the hash stays.
OnlyUses ==
    /\ \A x \in Procs : Does[x] = "use"
    /\ setting.redis = 0 /\ LastTime < HashTTL

\* The uses together are charged no more than the token was granted: the
\* balance is checked and reduced in one script and a snapshot never replaces
\* a live hash (TryReserveTokenQuota, cacheInitToken).
SpentWithinGrant == OnlyUses => spent <= Grant

Ended == {"charged", "refused", "changed", "failed"}

\* When no request is under way the hash holds what the row holds: what was
\* taken from the hash and could not be written to the row was given back.
CopyAgrees ==
    OnlyUses /\ (\A x \in Procs : at[x] \in Ended \cup {"start"}) /\ hash # NoHash
        => hash.quota = Grant - spent
=============================================================================
