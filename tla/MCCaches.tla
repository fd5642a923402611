----------------------------- MODULE MCCaches -----------------------------
(***************************************************************************)
(* The caches of users and of tokens in Redis for TLC.  A behaviour is one *)
(* of UserAuthCache or one of TokenCache, each with one of four sets of    *)
(* requests; the other cache stands still.                                 *)
(***************************************************************************)
EXTENDS UserAuthCache, FiniteSets, TLC

CONSTANTS
    x1, x2, x3, x4,
    TokenSettings, Cost, TokenFenceTTL, MaxDelay  \* of TokenCache

\* tokenCacheFenceSeconds is chosen longer than a change and the reader of the
\* row before it can take.
ASSUME TokenAssumption ==
    /\ IsFiniteSet(Procs)
    /\ Cost \in Nat /\ MaxDelay \in Nat /\ TokenFenceTTL \in Nat
    /\ 2 * MaxDelay < TokenFenceTTL
    /\ \A s \in TokenSettings :
           /\ s.kind \in [Procs -> {"use", "status", "edit", "delete", "drop"}]
           /\ s.warm \in BOOLEAN
           /\ s.grant \in Nat /\ s.ttl \in Nat /\ s.horizon \in Nat
           /\ s.redis \in Nat /\ s.db \in Nat

VARIABLES
    part,  \* "auth" or "token"
    terms, clock, row, copy, fence, place, read, due, before, told, spent, faults

-----------------------------------------------------------------------------
(* UserAuthCache.                                                          *)

\* Two readers beside two changes, with faults, while fences last.
Fenced ==
    [kind |-> (x1 :> "read") @@ (x2 :> "read") @@ (x3 :> "change") @@ (x4 :> "change"),
     warm |-> TRUE, ttl |-> 2, fence |-> 4, horizon |-> 2,
     redis |-> 1, db |-> 1, crash |-> 1]

\* The same with delays longer than the hash and the fence last.
Slow ==
    [Fenced EXCEPT !.ttl = 1, !.fence = 2, !.horizon = 4, !.redis = 0, !.db = 0,
                   !.crash = 0]

\* Two readers beside a deletion and a refresh of the group.
Deleting ==
    [Slow EXCEPT !.kind = (x1 :> "read") @@ (x2 :> "read") @@ (x3 :> "delete")
                            @@ (x4 :> "regroup"),
                 !.db = 1]

\* Refreshes of the group alone.
Regrouping ==
    [Slow EXCEPT !.kind = [x \in Procs |-> "regroup"], !.ttl = 4, !.fence = 5,
                 !.horizon = 1]

AuthSettings == {Fenced, Slow, Deleting, Regrouping}

-----------------------------------------------------------------------------
(* TokenCache.                                                             *)

\* Two uses beside an edit and a deletion, with a failing statement.
Edited ==
    [kind |-> (x1 :> "use") @@ (x2 :> "use") @@ (x3 :> "edit") @@ (x4 :> "delete"),
     grant |-> 1, warm |-> TRUE, ttl |-> 2, horizon |-> 3, redis |-> 0, db |-> 1]

\* Two uses beside a change of the status and an invalidation, from a cold
\* cache; and with a command to Redis that is lost.
Disabled ==
    [kind |-> (x1 :> "use") @@ (x2 :> "use") @@ (x3 :> "status") @@ (x4 :> "drop"),
     grant |-> 2, warm |-> FALSE, ttl |-> 2, horizon |-> 4, redis |-> 0, db |-> 0]
Lost == [Disabled EXCEPT !.warm = TRUE, !.ttl = 1, !.horizon = 2, !.redis = 1]

\* Four uses of a token that nobody changes, with a failing statement.
Used ==
    [kind |-> [x \in Procs |-> "use"], grant |-> 2, warm |-> FALSE, ttl |-> 9,
     horizon |-> 1, redis |-> 0, db |-> 1]

UseSettings == {Edited, Disabled, Lost, Used}

Token == INSTANCE TokenCache WITH
    Settings <- TokenSettings, FenceTTL <- TokenFenceTTL,
    setting <- terms, now <- clock, hash <- copy, at <- place, seen <- read,
    since <- before, acked <- told, budget <- faults

tokenVars == <<terms, clock, row, copy, fence, place, read, due, before, told,
               spent, faults>>

-----------------------------------------------------------------------------
MCInit ==
    /\ part \in {"auth", "token"}
    /\ Init /\ (part = "token" => setting = CHOOSE s \in Settings : TRUE)
    /\ Token!Init /\ (part = "auth" => terms = CHOOSE s \in TokenSettings : TRUE)

MCNext ==
    /\ \/ part = "auth" /\ Next /\ UNCHANGED tokenVars
       \/ part = "token" /\ Token!Next /\ UNCHANGED vars
    /\ UNCHANGED part

MCSpec == MCInit /\ [][MCNext]_<<part, vars, tokenVars>>

-----------------------------------------------------------------------------
\* The hash of a user.  From the commit of a change on nobody who asks is served
\* what was before it, wherever the change stops after it, as long as its fence
\* lasts; nothing that lasts runs ahead of the row, so that a rollback locks
\* nobody out (IncrementUserAuthVersionWithTx raises the fence before the row
\* changes).  Once every change of the group has been refreshed the hash has
\* the group of the row (RefreshUserGroupCache).
AuthHashIsSound == CommittedIsSeen /\ NothingAhead /\ GroupConverges

\* The hash of a token: a use is judged by the last change that was reported,
\* the hash is the token as some change left it, and the uses of a token that
\* nobody changes are charged no more than its grant and leave the hash with
\* the balance (cacheInitToken, invalidateTokenCacheForMutation,
\* TryReserveTokenQuota).
TokenHashIsSound ==
    /\ Token!ChangeIsSeen
    /\ Token!HashIsOfTheRow
    /\ Token!SpentWithinGrant /\ Token!CopyAgrees
=============================================================================
