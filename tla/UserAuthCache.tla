--------------------------- MODULE UserAuthCache ---------------------------
(***************************************************************************)
(* The authentication state of a user: the row, the hash in Redis, the     *)
(* pending fence that a change raises before its transaction and the floor *)
(* of committed versions (model/user_auth_cache.go, user_cache.go).        *)
(*                                                                         *)
(* The version stands for all that a change protects: password, status,    *)
(* role, second factor.  The group changes without a version.              *)
(***************************************************************************)
EXTENDS Integers

CONSTANTS
    Procs,     \* requests
    Settings,  \* what they do, the times and the faults, see Kind and below
    NoProc     \* nobody

ASSUME AuthAssumption ==
    /\ NoProc \notin Procs
    /\ \A s \in Settings :
           /\ s.kind \in [Procs -> {"change", "delete", "regroup", "read"}]
           /\ s.warm \in BOOLEAN
           /\ s.ttl \in Nat /\ s.fence \in Nat /\ s.horizon \in Nat
           /\ 0 < s.ttl /\ s.ttl < s.fence
           /\ s.redis \in Nat /\ s.db \in Nat /\ s.crash \in Nat

VARIABLES
    setting,  \* the one of Settings this behaviour has
    now,      \* the time
    user,     \* the row
    hash,     \* the hash in Redis, version 0 when there is none
    pending,  \* the fence, version 0 when there is none
    floor,    \* the committed version
    holder,   \* who holds the lock on the row
    at,       \* where each request is
    seen,     \* the version and the group it has read
    tries,    \* the writes of RefreshUserGroupCache
    since,    \* the committed and the reported version when it started
    acked,    \* the last version whose change was reported
    budget    \* faults left

vars == <<setting, now, user, hash, pending, floor, holder, at, seen, tries,
          since, acked, budget>>

Kind == setting.kind        \* "change", "delete", "regroup" or "read"
CacheTTL == setting.ttl     \* userCacheTTLSeconds
FenceTTL == setting.fence   \* userAuthFenceTTLSeconds
Horizon == setting.horizon  \* the last instant of the model

NoHash == [version |-> 0, group |-> 0, until |-> 0]
NoFence == [version |-> 0, until |-> 0]

Init ==
    /\ setting \in Settings
    /\ now = 0
    /\ user = [version |-> 1, group |-> 1, deleted |-> FALSE]
    /\ hash = IF setting.warm THEN [version |-> 1, group |-> 1, until |-> CacheTTL]
              ELSE NoHash
    /\ pending = NoFence
    /\ floor = IF setting.warm THEN 1 ELSE 0
    /\ holder = NoProc
    /\ at = [x \in Procs |-> "start"]
    /\ seen = [x \in Procs |-> [version |-> 0, group |-> 0]]
    /\ tries = [x \in Procs |-> 0]
    /\ since = [x \in Procs |-> [committed |-> 0, acked |-> 0]]
    /\ acked = 1
    /\ budget = [redis |-> setting.redis, db |-> setting.db,
                 crash |-> setting.crash]

Spend(what) == budget[what] > 0 /\ budget' = [budget EXCEPT ![what] = @ - 1]
Go(x, place) == at' = [at EXCEPT ![x] = place]
Most(a, b) == IF a > b THEN a ELSE b
Sees(x) == seen' = [seen EXCEPT ![x] = [version |-> user.version,
                                        group |-> user.group]]

-----------------------------------------------------------------------------
(* The scripts.                                                            *)

\* The tests that writeUserCache and updateUserCacheFieldAtVersion make first.
Accepts(v) == pending.version <= v /\ floor <= v /\ hash.version <= v

\* The version is published with every write that is accepted.
\* A bug this model can tell: the fence goes and no floor takes its place.
PromoteNothing(v) ==
    /\ pending' = IF pending.version <= v THEN NoFence ELSE pending
    /\ UNCHANGED floor

Promote(v) ==
    /\ floor' = Most(floor, v)
    /\ pending' = IF pending.version <= v THEN NoFence ELSE pending

\* getUserAuthVersionFloor.
Lowest == Most(pending.version, floor)

\* SetUserAuthVersionFence.
Raised(v) == IF pending.version <= v
             THEN [version |-> v, until |-> now + FenceTTL] ELSE pending

-----------------------------------------------------------------------------
(* A change: IncrementUserAuthVersionWithTx in its transaction, then       *)
(* PublishUserAuthCache; or the deletion of the user.                      *)

ChangeLocks(x) ==
    /\ Kind[x] \in {"change", "delete"}
    /\ at[x] = "start"
    /\ holder = NoProc
    /\ ~user.deleted
    /\ holder' = x
    /\ Sees(x)
    /\ Go(x, "fence")
    /\ UNCHANGED <<now, user, hash, pending, floor, tries, since, acked, budget>>

\* The fence comes before the row.
\* A bug this model can tell: it is left out.
FenceNone(x) == UNCHANGED pending
Fence(x) == pending' = Raised(seen[x].version + 1)

\* The transaction ends, one way or the other.
Release == holder' = NoProc

ChangeFences(x) ==
    /\ at[x] = "fence"
    /\ \/ /\ Fence(x)
          /\ Go(x, "commit")
          /\ UNCHANGED <<holder, budget>>
       \/ /\ Spend("redis")
          /\ Go(x, "failed")
          /\ Release
          /\ UNCHANGED pending
    /\ UNCHANGED <<now, user, hash, floor, seen, tries, since, acked>>

\* The transaction commits, or is rolled back and leaves its fence.
ChangeCommits(x) ==
    /\ at[x] = "commit"
    /\ \/ /\ user' = [user EXCEPT !.version = seen[x].version + 1,
                                  !.deleted = Kind[x] = "delete"]
          /\ Go(x, IF Kind[x] = "delete" THEN "promote" ELSE "publishread")
          /\ UNCHANGED budget
       \/ /\ Spend("db")
          /\ Go(x, "failed")
          /\ UNCHANGED user
    /\ Release
    /\ UNCHANGED <<now, hash, pending, floor, seen, tries, since, acked>>

PublishReads(x) ==
    /\ at[x] = "publishread"
    /\ Sees(x)
    /\ Go(x, IF user.deleted THEN "failed" ELSE "publish")
    /\ UNCHANGED <<now, user, hash, pending, floor, holder, tries, since, acked,
                   budget>>

\* updateUserCache: the hash is changed only if it is there.
PublishWrites(x) ==
    /\ at[x] = "publish"
    /\ \/ /\ Accepts(seen[x].version)
          /\ hash' = IF hash = NoHash THEN hash
                     ELSE [version |-> seen[x].version,
                           group |-> seen[x].group, until |-> now + CacheTTL]
          /\ Promote(seen[x].version)
          /\ acked' = Most(acked, seen[x].version)
          /\ Go(x, "changed")
          /\ UNCHANGED budget
       \/ /\ ~Accepts(seen[x].version)
          /\ Go(x, "failed")
          /\ UNCHANGED <<hash, pending, floor, acked, budget>>
       \/ /\ Spend("redis")
          /\ Go(x, "failed")
          /\ UNCHANGED <<hash, pending, floor, acked>>
    /\ UNCHANGED <<now, user, holder, seen, tries, since>>

\* publishCommittedUserAuthVersion, for a user who is gone.
DeletePromotes(x) ==
    /\ at[x] = "promote"
    /\ \/ /\ Promote(seen[x].version + 1)
          /\ Go(x, "invalidate")
          /\ UNCHANGED budget
       \/ /\ Spend("redis")
          /\ Go(x, "failed")
          /\ UNCHANGED <<pending, floor>>
    /\ UNCHANGED <<now, user, hash, holder, seen, tries, since, acked>>

\* invalidateUserCache; its sessions have been revoked before (UserSession).
DeleteInvalidates(x) ==
    /\ at[x] = "invalidate"
    /\ \/ /\ hash' = NoHash
          /\ acked' = Most(acked, seen[x].version + 1)
          /\ Go(x, "changed")
          /\ UNCHANGED budget
       \/ /\ Spend("redis")
          /\ Go(x, "failed")
          /\ UNCHANGED <<hash, acked>>
    /\ UNCHANGED <<now, user, pending, floor, holder, seen, tries, since>>

-----------------------------------------------------------------------------
(* GetUserCache.                                                           *)

\* The hash, then the floor: two commands.
ReadHash(x) ==
    /\ Kind[x] = "read"
    /\ at[x] = "start"
    /\ since' = [since EXCEPT ![x] = [committed |-> user.version,
                                      acked |-> acked]]
    /\ \/ /\ seen' = [seen EXCEPT ![x] = [version |-> hash.version,
                                          group |-> hash.group]]
          /\ Go(x, IF hash = NoHash THEN "row" ELSE "floor")
          /\ UNCHANGED budget
       \/ Spend("redis") /\ Go(x, "row") /\ UNCHANGED seen
    /\ UNCHANGED <<now, user, hash, pending, floor, holder, tries, acked>>

ReadFloor(x) ==
    /\ at[x] = "floor"
    /\ \/ /\ Go(x, IF Lowest > seen[x].version THEN "row" ELSE "served")
          /\ UNCHANGED budget
       \/ Spend("redis") /\ Go(x, "row")
    /\ UNCHANGED <<now, user, hash, pending, floor, holder, seen, tries, since,
                   acked>>

ReadRow(x) ==
    /\ at[x] = "row"
    /\ Sees(x)
    /\ Go(x, IF user.deleted THEN "failed" ELSE "check")
    /\ UNCHANGED <<now, user, hash, pending, floor, holder, tries, since, acked,
                   budget>>

\* A floor that cannot be read is not waited for.
CheckFloor(x) ==
    /\ at[x] = "check"
    /\ \/ /\ Go(x, IF Lowest > seen[x].version THEN "pending" ELSE "populate")
          /\ UNCHANGED budget
       \/ Spend("redis") /\ Go(x, "populate")
    /\ UNCHANGED <<now, user, hash, pending, floor, holder, seen, tries, since,
                   acked>>

\* populateUserCache.
Populate(x) ==
    /\ at[x] = "populate"
    /\ \/ /\ Accepts(seen[x].version)
          /\ hash' = [version |-> seen[x].version, group |-> seen[x].group,
                      until |-> now + CacheTTL]
          /\ Promote(seen[x].version)
          /\ Go(x, "served")
          /\ UNCHANGED budget
       \/ /\ ~Accepts(seen[x].version)
          /\ Go(x, "pending")
          /\ UNCHANGED <<hash, pending, floor, budget>>
       \/ /\ Spend("redis")
          /\ Go(x, "served")
          /\ UNCHANGED <<hash, pending, floor>>
    /\ UNCHANGED <<now, user, holder, seen, tries, since, acked>>

-----------------------------------------------------------------------------
(* A change of the group, and RefreshUserGroupCache.                       *)

Regroup(x) ==
    /\ Kind[x] = "regroup"
    /\ at[x] = "start"
    /\ holder = NoProc
    /\ ~user.deleted
    /\ user' = [user EXCEPT !.group = @ + 1]
    /\ Go(x, "refresh")
    /\ UNCHANGED <<now, hash, pending, floor, holder, seen, tries, since, acked,
                   budget>>

RefreshReads(x) ==
    /\ at[x] = "refresh"
    /\ Sees(x)
    /\ Go(x, IF user.deleted THEN "failed" ELSE "write")
    /\ UNCHANGED <<now, user, hash, pending, floor, holder, tries, since, acked,
                   budget>>

\* updateUserCacheFieldAtVersion.
RefreshWrites(x) ==
    /\ at[x] = "write"
    /\ \/ /\ Accepts(seen[x].version)
          /\ hash' = IF hash.version = seen[x].version
                     THEN [hash EXCEPT !.group = seen[x].group] ELSE hash
          /\ Promote(seen[x].version)
          /\ tries' = [tries EXCEPT ![x] = @ + 1]
          /\ Go(x, IF tries[x] < 3 THEN "verify" ELSE "failed")
          /\ UNCHANGED budget
       \/ /\ \/ ~Accepts(seen[x].version) /\ UNCHANGED budget
             \/ Spend("redis")
          /\ Go(x, "failed")
          /\ UNCHANGED <<hash, pending, floor, tries>>
    /\ UNCHANGED <<now, user, holder, seen, since, acked>>

\* What was written is what the row has now.
Stable(x) == seen[x] = [version |-> user.version, group |-> user.group]

RefreshVerifies(x) ==
    /\ at[x] = "verify"
    /\ Sees(x)
    /\ Go(x, IF user.deleted THEN "failed"
             ELSE IF Stable(x) THEN "refreshed" ELSE "write")
    /\ UNCHANGED <<now, user, hash, pending, floor, holder, tries, since, acked,
                   budget>>

-----------------------------------------------------------------------------
\* Time passes; what has expired is no longer in Redis.
Tick ==
    /\ now < Horizon
    /\ now' = now + 1
    /\ hash' = IF hash.until <= now + 1 THEN NoHash ELSE hash
    /\ pending' = IF pending.until <= now + 1 THEN NoFence ELSE pending
    /\ UNCHANGED <<user, floor, holder, at, seen, tries, since, acked, budget>>

Ended == {"changed", "failed", "served", "pending", "refreshed"}

\* A request stops half-way; its transaction is rolled back.
Crash(x) ==
    /\ at[x] \notin Ended \cup {"start"}
    /\ Spend("crash")
    /\ Go(x, "failed")
    /\ holder' = IF holder = x THEN NoProc ELSE holder
    /\ UNCHANGED <<now, user, hash, pending, floor, seen, tries, since, acked>>

Step(x) ==
    \/ ChangeLocks(x) \/ ChangeFences(x) \/ ChangeCommits(x)
    \/ PublishReads(x) \/ PublishWrites(x)
    \/ DeletePromotes(x) \/ DeleteInvalidates(x)
    \/ ReadHash(x) \/ ReadFloor(x) \/ ReadRow(x) \/ CheckFloor(x) \/ Populate(x)
    \/ Regroup(x) \/ RefreshReads(x) \/ RefreshWrites(x) \/ RefreshVerifies(x)
    \/ Crash(x)

Next == (Tick \/ \E x \in Procs : Step(x)) /\ UNCHANGED setting

Spec == Init /\ [][Next]_vars

-----------------------------------------------------------------------------
(* Properties.                                                             *)

Places == Ended \cup {"start", "fence", "commit", "publishread", "publish",
                      "promote", "invalidate", "floor", "row", "check",
                      "populate", "refresh", "write", "verify"}

\* The type invariant; a lock is held between fence and commit.
TypeOK ==
    /\ setting \in Settings
    /\ now \in Nat
    /\ user \in [version : Nat, group : Nat, deleted : BOOLEAN]
    /\ hash \in [version : Nat, group : Nat, until : Nat]
    /\ pending \in [version : Nat, until : Nat]
    /\ floor \in Nat
    /\ holder \in {x \in Procs : at[x] \in {"fence", "commit"}} \cup {NoProc}
    /\ at \in [Procs -> Places]
    /\ seen \in [Procs -> [version : Nat, group : Nat]]
    /\ tries \in [Procs -> 0 .. 4]
    /\ since \in [Procs -> [committed : Nat, acked : Nat]]
    /\ acked \in Nat
    /\ budget \in [redis : Nat, db : Nat, crash : Nat]

\* From the moment a change is committed nobody who asks later is served what
\* was before it, even if nothing is published afterwards, as long as fences
\* last: the fence was raised first (IncrementUserAuthVersionWithTx).
CommittedIsSeen ==
    Horizon < FenceTTL =>
        \A x \in Procs :
            at[x] = "served" => seen[x].version >= since[x].committed

\* Once a change is reported nobody who asks later is served what was before
\* it, however long a reader takes to fill the hash: the floor does not expire
\* (writeUserCache, publishCommittedUserAuthVersion).
ReportedIsSeen ==
    \A x \in Procs :
        at[x] = "served" => seen[x].version >= since[x].acked

\* Nothing that lasts is ahead of the row, so a change that is rolled back
\* locks nobody out once its fence has run out.
NothingAhead == floor <= user.version /\ hash.version <= user.version

\* Where only the group changes: when every change has been followed by its
\* refresh, the hash has the group of the row, whichever refresh wrote last
\* (RefreshUserGroupCache verifies what it wrote).
GroupConverges ==
    /\ \A x \in Procs : Kind[x] = "regroup" /\ at[x] \in {"start", "refreshed"}
    /\ hash.version = user.version
    => hash.group = user.group
=============================================================================
