---------------------------- MODULE UserSession ----------------------------
(***************************************************************************)
(* A login session: its row in user_sessions, the entry for it in Redis    *)
(* and the requests that validate, refresh, advance and revoke it          *)
(* (model/user_session.go, service/auth_session.go).                       *)
(*                                                                         *)
(* A statement on the row and a script in Redis are each one step, and     *)
(* time passes between them.  Refresh secrets are numbered: the successor  *)
(* of a secret is derived from it, so the successor of n is n + 1.         *)
(***************************************************************************)
EXTENDS Integers

CONSTANTS
    Procs,       \* requests
    Settings,    \* the settings a behaviour may run with, records of the
                 \* fields below
    NoProc       \* nobody

Kinds == {"login", "read", "rotate", "logout", "revoke", "revokeall", "advance"}

ASSUME SessionAssumption ==
    /\ \A s \in Settings :
          /\ s.kind \in [Procs -> Kinds]
          /\ s.secret \in [Procs -> Nat \ {0}]
          /\ {s.ttl, s.grace, s.lifetime, s.retention, s.horizon} \subseteq Nat
          /\ s.ttl > 0 /\ s.lifetime > 0
          /\ s.redisFaults \in Nat /\ s.crashes \in Nat
    /\ NoProc \notin Procs

VARIABLE setting  \* the one of this behaviour; it never changes

Kind == setting.kind                \* one of Kinds for each request
Secret == setting.secret            \* the refresh secret that a "rotate" or
                                    \* "logout" presents
TTL == setting.ttl                  \* userCacheTTLSeconds
Grace == setting.grace              \* RefreshReplayWindow
Lifetime == setting.lifetime        \* the time at which the session expires
Retention == setting.retention      \* how long a revoked row is kept
Horizon == setting.horizon          \* the last instant of the model
RedisFaults == setting.redisFaults  \* commands to Redis that may fail
Crashes == setting.crashes          \* requests that may stop half-way

VARIABLES
    now,     \* the time
    row,     \* the row of the session
    entry,   \* the hash in Redis
    holder,  \* who holds the lock on the row
    at,      \* where each request is
    loc,     \* its local variables
    acked,   \* a revocation has been reported as done
    ended,   \* when the row stopped being active, or Never
    budget   \* faults left

vars == <<setting, now, row, entry, holder, at, loc, acked, ended, budget>>

\* The bodies of the row and of the hash that matter here.
NoRow == [status |-> "none", version |-> 0, current |-> 0, previous |-> 0,
          validUntil |-> 0, revokedAt |-> 0]
NewRow == [status |-> "active", version |-> 1, current |-> 1, previous |-> 0,
           validUntil |-> 0, revokedAt |-> 0]
Never == -1
NoEntry == [status |-> "none", version |-> 0, until |-> 0]

Init ==
    /\ setting \in Settings
    /\ now = 0
    /\ row = IF \E x \in Procs : Kind[x] = "login" THEN NoRow ELSE NewRow
    /\ entry = NoEntry
    /\ holder = NoProc
    /\ at = [x \in Procs |-> "start"]
    /\ loc = [x \in Procs |->
                [seen |-> NoRow, deadline |-> 0, until |-> 0, noted |-> 0,
                 tries |-> 0, goal |-> "failed", late |-> FALSE,
                 gone |-> FALSE, old |-> FALSE]]
    /\ acked = FALSE
    /\ ended = Never
    /\ budget = [redis |-> RedisFaults, crash |-> Crashes]

Spend(what) == budget[what] > 0 /\ budget' = [budget EXCEPT ![what] = @ - 1]
Go(x, place) == at' = [at EXCEPT ![x] = place]
Free(x) == holder \in {NoProc, x}

\* The test of a row that every operation makes.
Usable(r, t) == r.status = "active" /\ t < Lifetime

\* Somebody may hold a token of the session.
Issued == row # NoRow \/ ended # Never

Least(a, b) == IF a < b THEN a ELSE b
Most(a, b) == IF a > b THEN a ELSE b

-----------------------------------------------------------------------------
(* writeUserSessionCache.                                                  *)

\* The deadline of an observation made at t.
DeadlineAt(t) == t + TTL

\* When an active entry expires.
\* A bug this model can tell: the window starts again with the write.
ActiveUntilAgain(deadline) == Least(now + TTL, Lifetime)
ActiveUntil(deadline) == Least(deadline, Lifetime)

\* The tests before an active entry is sent.
PrepareActive(x) ==
    /\ at[x] = "prepare"
    /\ \/ /\ loc[x].deadline <= now
          /\ Go(x, "confirm")
          /\ UNCHANGED loc
       \/ /\ loc[x].deadline > now
          /\ Lifetime <= now
          /\ Go(x, "denied")
          /\ UNCHANGED loc
       \/ /\ loc[x].deadline > now
          /\ Lifetime > now
          /\ loc' = [loc EXCEPT ![x].until = ActiveUntil(loc[x].deadline)]
          /\ Go(x, "send")
    /\ UNCHANGED <<now, row, entry, holder, acked, ended, budget>>

\* The conditions of the script.
AcceptsActive(version) ==
    /\ entry.status \notin {"revoking", "revoked"}
    /\ entry.version <= version

\* PEXPIREAT with a time that has passed deletes the hash.
Stored(status, version, until) ==
    IF until > now
    THEN [status |-> status, version |-> version, until |-> until]
    ELSE NoEntry

\* The script with an active entry, and the tests after it.  A command that
\* fails is logged, except by AdvanceUserSessionAuthVersion.
SendActive(x) ==
    /\ at[x] = "send"
    /\ \/ /\ AcceptsActive(loc[x].seen.version)
          /\ entry' = Stored("active", loc[x].seen.version, loc[x].until)
          /\ Go(x, IF loc[x].deadline <= now THEN "confirm"
                   ELSE IF Lifetime <= now THEN "denied"
                   ELSE loc[x].goal)
          /\ UNCHANGED budget
       \/ /\ ~AcceptsActive(loc[x].seen.version)
          /\ Go(x, "denied")
          /\ UNCHANGED <<entry, budget>>
       \/ /\ Spend("redis")
          /\ Go(x, IF Kind[x] = "advance" THEN "failed" ELSE loc[x].goal)
          /\ UNCHANGED entry
    /\ UNCHANGED <<now, row, holder, loc, acked, ended>>

\* confirmUserSessionActiveSnapshot.
Confirm(x) ==
    /\ at[x] = "confirm"
    /\ Go(x, IF Usable(row, now) /\ row.version = loc[x].seen.version
             THEN loc[x].goal ELSE "denied")
    /\ UNCHANGED <<now, row, entry, holder, loc, acked, ended, budget>>

\* How long a denial stays.
DenyUntil == now + Most(Least(Lifetime - now, TTL), 1)

\* The script with a denial: only the version is tested.
AcceptsDenial(version) == entry.version <= version

-----------------------------------------------------------------------------
(* CreateUserSession.                                                      *)

CreateUserSession(x) ==
    /\ Kind[x] = "login"
    /\ at[x] = "start"
    /\ ~Issued
    /\ row' = NewRow
    /\ loc' = [loc EXCEPT ![x].seen = NewRow, ![x].goal = "loggedin",
                          ![x].deadline = DeadlineAt(now)]
    /\ Go(x, "prepare")
    /\ UNCHANGED <<now, entry, holder, acked, ended, budget>>

-----------------------------------------------------------------------------
(* GetUserSessionCached, by ValidateLoginSession and at the start of       *)
(* RefreshLoginSession.                                                    *)

AfterRead(x) == IF Kind[x] = "read" THEN "valid" ELSE "refresh"

ReadEntry(x) ==
    /\ Kind[x] \in {"read", "rotate"}
    /\ at[x] = "start"
    /\ Issued
    /\ loc' = [loc EXCEPT ![x].late = acked,
                          ![x].gone = ended # Never,
                          ![x].old = ended # Never /\ ended + TTL <= now,
                          ![x].goal = AfterRead(x)]
    /\ \/ /\ Go(x, CASE entry.status = "none" -> "fetch"
                     [] entry.status = "active" /\ now < Lifetime ->
                          AfterRead(x)
                     [] OTHER -> "denied")
          /\ UNCHANGED budget
       \/ Spend("redis") /\ Go(x, "fetch")
    /\ UNCHANGED <<now, row, entry, holder, acked, ended>>

\* The deadline is taken just before the row is read.
FetchRow(x) ==
    /\ at[x] = "fetch"
    /\ loc' = [loc EXCEPT ![x].seen = row, ![x].deadline = DeadlineAt(now)]
    /\ Go(x, IF row = NoRow THEN "failed"
             ELSE IF Usable(row, now) THEN "prepare" ELSE "bury")
    /\ UNCHANGED <<now, row, entry, holder, acked, ended, budget>>

\* A row that is not active leaves a tombstone.
Bury(x) ==
    /\ at[x] = "bury"
    /\ \/ /\ entry' = IF AcceptsDenial(loc[x].seen.version)
                      THEN Stored("revoked", loc[x].seen.version, DenyUntil)
                      ELSE entry
          /\ UNCHANGED budget
       \/ Spend("redis") /\ UNCHANGED entry
    /\ Go(x, "denied")
    /\ UNCHANGED <<now, row, holder, loc, acked, ended>>

-----------------------------------------------------------------------------
(* RotateUserSessionRefresh.                                               *)

\* The secret before the current one.
Recognised(r, secret) == r.previous # 0 /\ r.previous = secret

\* RefreshLoginSession takes the time and calls RotateUserSessionRefresh.
RotateStarts(x) ==
    /\ at[x] = "refresh"
    /\ loc' = [loc EXCEPT ![x].noted = now]
    /\ Go(x, "rotate")
    /\ UNCHANGED <<now, row, entry, holder, acked, ended, budget>>

RotateReads(x) ==
    /\ at[x] = "rotate"
    /\ loc' = [loc EXCEPT ![x].seen = row, ![x].deadline = DeadlineAt(now)]
    /\ Go(x, IF row = NoRow THEN "failed"
             ELSE IF ~Usable(row, loc[x].noted) THEN "denied"
             ELSE IF row.current = Secret[x] THEN "swap"
             ELSE IF ~Recognised(row, Secret[x]) THEN "invalid"
             ELSE IF loc[x].noted <= row.validUntil THEN "raced"
             ELSE "fence")
    /\ UNCHANGED <<now, row, entry, holder, acked, ended, budget>>

\* A bug this model can tell: the hash is not a condition of the statement.
SwappableAnyway(x) == Usable(row, loc[x].noted)
Swappable(x) == Usable(row, loc[x].noted) /\ row.current = Secret[x]

RotateSwaps(x) ==
    /\ at[x] = "swap"
    /\ Free(x)
    /\ \/ /\ Swappable(x)
          /\ row' = [row EXCEPT !.previous = loc[x].seen.current,
                                !.validUntil = loc[x].noted + Grace,
                                !.current = Secret[x] + 1]
          /\ loc' = [loc EXCEPT ![x].goal = "rotated"]
          /\ Go(x, "prepare")
       \/ /\ ~Swappable(x)
          /\ loc' = [loc EXCEPT ![x].tries = @ + 1]
          /\ Go(x, IF loc[x].tries < 2 THEN "rotate" ELSE "invalid")
          /\ UNCHANGED row
    /\ UNCHANGED <<now, entry, holder, acked, ended, budget>>

-----------------------------------------------------------------------------
(* Revocation: RevokeUserSession, revokeUserSessions,                      *)
(* RevokeUserSessionByRefreshHash and the end of RotateUserSessionRefresh. *)

RevokeReads(x) ==
    /\ Kind[x] \in {"revoke", "revokeall"}
    /\ at[x] \in {"start", "again"}
    /\ Issued
    /\ loc' = [loc EXCEPT ![x].seen = row,
                          ![x].noted = IF at[x] = "start" THEN now ELSE @]
    /\ Go(x, IF Usable(row, loc'[x].noted) THEN "fence"
             ELSE IF at[x] = "again" THEN "revoked" ELSE "nothing")
    /\ UNCHANGED <<now, row, entry, holder, acked, ended, budget>>

\* Logout checks the secret in a transaction that locks the row.
LogoutReads(x) ==
    /\ Kind[x] = "logout"
    /\ at[x] = "start"
    /\ Issued
    /\ Free(x)
    /\ loc' = [loc EXCEPT ![x].seen = row, ![x].noted = now]
    /\ \/ /\ Usable(row, now)
          /\ \/ row.current = Secret[x]
             \/ Recognised(row, Secret[x]) /\ now <= row.validUntil
          /\ holder' = x
          /\ Go(x, "fence")
       \/ /\ \/ ~Usable(row, now)
             \/ /\ row.current # Secret[x]
                /\ ~Recognised(row, Secret[x]) \/ now > row.validUntil
          /\ Go(x, "nothing")
          /\ UNCHANGED holder
    /\ UNCHANGED <<now, row, entry, acked, ended, budget>>

\* writeUserSessionDenyFence.  An error ends the revocation.
\* A bug this model can tell: the fence is left to the tombstone.
FenceSkipped(x) == UNCHANGED entry
Fence(x) == entry' = Stored("revoking", loc[x].seen.version, DenyUntil)

WriteDenyFence(x) ==
    /\ at[x] = "fence"
    /\ \/ /\ AcceptsDenial(loc[x].seen.version)
          /\ Fence(x)
          /\ Go(x, "update")
          /\ UNCHANGED <<holder, budget>>
       \/ /\ \/ ~AcceptsDenial(loc[x].seen.version) /\ UNCHANGED budget
             \/ Spend("redis")
          /\ Go(x, "failed")
          /\ holder' = IF holder = x THEN NoProc ELSE holder
          /\ UNCHANGED entry
    /\ UNCHANGED <<now, row, loc, acked, ended>>

\* The row is revoked if it still is active.
RevokeUpdates(x) ==
    /\ at[x] = "update"
    /\ Free(x)
    /\ \/ /\ Usable(row, loc[x].noted)
          /\ row' = [row EXCEPT !.status = "revoked", !.revokedAt = loc[x].noted]
          /\ ended' = now
          /\ Go(x, "tombstone")
       \/ /\ ~Usable(row, loc[x].noted)
          /\ Go(x, IF Kind[x] = "revokeall" THEN "again" ELSE "nothing")
          /\ UNCHANGED <<row, ended>>
    /\ holder' = NoProc
    /\ UNCHANGED <<now, entry, loc, acked, budget>>

\* What the tombstone changes in Redis.
Tombstone(x) ==
    entry' = IF AcceptsDenial(loc[x].seen.version)
             THEN Stored("revoked", loc[x].seen.version, DenyUntil)
             ELSE entry

\* The tombstone, and the report to the caller.
WriteTombstone(x) ==
    /\ at[x] = "tombstone"
    /\ \/ Tombstone(x) /\ UNCHANGED budget
       \/ Spend("redis") /\ UNCHANGED entry
    /\ Go(x, IF Kind[x] = "revokeall" THEN "again" ELSE "revoked")
    /\ acked' = TRUE
    /\ UNCHANGED <<now, row, holder, loc, ended>>

-----------------------------------------------------------------------------
(* AdvanceUserSessionAuthVersion, with the version of the identity.        *)

AdvanceUserSession(x) ==
    /\ Kind[x] = "advance"
    /\ at[x] = "start"
    /\ Issued
    /\ Free(x)
    /\ \/ /\ Usable(row, now)
          /\ row.version = 1
          /\ row' = [row EXCEPT !.version = @ + 1]
          /\ loc' = [loc EXCEPT ![x].seen = row', ![x].goal = "advanced",
                                ![x].deadline = DeadlineAt(now)]
          /\ Go(x, "prepare")
       \/ /\ ~Usable(row, now) \/ row.version # 1
          /\ Go(x, "denied")
          /\ UNCHANGED <<row, loc>>
    /\ UNCHANGED <<now, entry, holder, acked, ended, budget>>

-----------------------------------------------------------------------------
(* Time, failures and the removal of old rows.                             *)

\* Time passes; what has expired is no longer in Redis.
Tick ==
    /\ now < Horizon
    /\ now' = now + 1
    /\ entry' = IF entry.until <= now + 1 THEN NoEntry ELSE entry
    /\ UNCHANGED <<row, holder, at, loc, acked, ended, budget>>

Ended == {"valid", "denied", "invalid", "raced", "rotated", "advanced",
          "loggedin", "revoked", "nothing", "failed"}

\* A request stops half-way; a transaction it has open is rolled back.
Crash(x) ==
    /\ at[x] \notin Ended \cup {"start"}
    /\ Spend("crash")
    /\ Go(x, "failed")
    /\ holder' = IF holder = x THEN NoProc ELSE holder
    /\ UNCHANGED <<now, row, entry, loc, acked, ended>>

\* deleteExpiredUserSessionsBefore and deleteRevokedUserSessionsBefore.
DeleteOldSession ==
    /\ row # NoRow
    /\ holder = NoProc
    /\ \/ Lifetime < now /\ row.status # "revoked"
       \/ row.status = "revoked" /\ row.revokedAt < now - Retention
    /\ row' = NoRow
    /\ ended' = IF ended = Never THEN now ELSE ended
    /\ UNCHANGED <<now, entry, holder, at, loc, acked, budget>>

Step(x) ==
    \/ CreateUserSession(x)
    \/ ReadEntry(x) \/ FetchRow(x) \/ Bury(x)
    \/ PrepareActive(x) \/ SendActive(x) \/ Confirm(x)
    \/ RotateStarts(x) \/ RotateReads(x) \/ RotateSwaps(x)
    \/ RevokeReads(x) \/ LogoutReads(x)
    \/ WriteDenyFence(x) \/ RevokeUpdates(x) \/ WriteTombstone(x)
    \/ AdvanceUserSession(x)
    \/ Crash(x)

Next ==
    /\ Tick \/ DeleteOldSession \/ \E x \in Procs : Step(x)
    /\ UNCHANGED setting

Spec == Init /\ [][Next]_vars

-----------------------------------------------------------------------------
(* Properties.                                                             *)

Statuses == {"none", "active", "revoking", "revoked"}
Rows == [status : Statuses, version : Nat, current : Nat, previous : Nat,
         validUntil : Nat, revokedAt : Nat]

Locals ==
    [seen : Rows, deadline : Nat, until : Nat, noted : Nat, tries : Nat,
     goal : {"failed", "valid", "refresh", "rotated", "advanced", "loggedin"},
     late : BOOLEAN, gone : BOOLEAN, old : BOOLEAN]
Places == Ended \cup {"start", "fetch", "bury", "prepare", "send", "confirm",
                     "refresh", "rotate", "swap", "again", "fence", "update",
                     "tombstone"}

\* The type invariant.
TypeOK ==
    /\ setting \in Settings
    /\ now \in Nat
    /\ row \in Rows
    /\ entry \in [status : Statuses, version : Nat, until : Nat]
    /\ holder \in Procs \cup {NoProc}
    /\ at \in [Procs -> Places]
    /\ loc \in [Procs -> Locals]
    /\ acked \in BOOLEAN
    /\ ended \in Int
    /\ budget \in [redis : Nat, crash : Nat]

\* The results that let a request pass.
Passed == {"valid", "rotated", "raced"}

\* Once a revocation has been reported, no request that starts later passes:
\* the fence, the tombstone and the deadline of writeUserSessionCache keep
\* every delayed active snapshot out of Redis.
RevokedIsDenied ==
    \A x \in Procs : loc[x].late => at[x] \notin Passed

\* Whatever Redis loses and wherever a revocation stops, a session whose row
\* is revoked is refused one TTL later (docs/authentication.md: stale at most
\* for SYNC_FREQUENCY).
StaleAtMostTTL ==
    \A x \in Procs : loc[x].old => at[x] \notin Passed

\* What keeps it so: once the row is not active, no entry and no snapshot on
\* its way is valid for longer than one TTL from then, and a request that
\* starts after that goes to the row.
Bounded ==
    /\ ended = Never \/ ended \in 0 .. now
    /\ row.status = "active" => ended = Never
    /\ entry.status # "none" => entry.until > now
    /\ entry.status = "active" =>
          /\ entry.until <= now + TTL
          /\ ended # Never => entry.until <= ended + TTL
    /\ \A x \in Procs : at[x] \in {"swap", "prepare", "send"} =>
                          loc[x].deadline <= now + TTL
    /\ \A x \in Procs : at[x] \in {"prepare", "send"} /\ ended # Never =>
                          loc[x].deadline <= ended + TTL
    /\ \A x \in Procs : at[x] = "send" => loc[x].until <= loc[x].deadline
    /\ \A x \in Procs : loc[x].old =>
          /\ ended # Never
          /\ at[x] \in {"fetch", "bury", "failed", "denied"}

\* A request that starts after the row is revoked is refused, even if the
\* revocation stops there or its tombstone is lost, because
\* writeUserSessionDenyFence comes before the row.  It holds while no denial
\* has run out, see RevocationHolds.
DeniedAtOnce ==
    \A x \in Procs : loc[x].gone => at[x] \notin Passed

\* The row alone decides on a refresh: a request that starts after the row is
\* revoked gets no new refresh token, whatever is in Redis
\* (RotateUserSessionRefresh).
RefreshNeedsLiveRow ==
    \A x \in Procs : loc[x].gone => at[x] \notin {"rotated", "raced"}

\* A refresh secret is exchanged once: the statement of
\* RotateUserSessionRefresh has a single winner.
SingleWinner ==
    \A x, y \in Procs :
        /\ loc[x].goal = "rotated"
        /\ loc[y].goal = "rotated"
        /\ x # y
        => Secret[x] # Secret[y]

\* A request that loses the race within the grace period has read the
\* successor it derives itself, so RefreshLoginSession can answer it.
RacedGetsSuccessor ==
    \A x \in Procs :
        at[x] = "raced" => loc[x].seen.current = Secret[x] + 1

\* Nobody moves the session to another version.
NoAdvance == \A x \in Procs : Kind[x] # "advance"

\* A revoked session is refused: once a revocation has been reported if every
\* command reaches Redis and the version stays, from the moment the row is
\* revoked, whatever fails, until the first denial can have run out, and always
\* for a refresh, which the row alone decides (writeUserSessionCache,
\* writeUserSessionDenyFence, RotateUserSessionRefresh).
RevocationHolds ==
    /\ RedisFaults = 0 /\ NoAdvance => RevokedIsDenied
    /\ Horizon < TTL => DeniedAtOnce
    /\ RefreshNeedsLiveRow

\* A refresh secret is exchanged once, and a request that loses the race within
\* the grace period can follow the winner (RotateUserSessionRefresh).
RefreshRaceIsSafe == SingleWinner /\ RacedGetsSuccessor
=============================================================================
