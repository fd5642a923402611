------------------------- MODULE UserSessionProofs -------------------------
(***************************************************************************)
(* Proofs about UserSession: its types, and that a revoked session is      *)
(* refused one TTL later whatever fails.                                   *)
(***************************************************************************)
EXTENDS MCSessions, TLAPS

\* What the assumption says of the setting of a behaviour.
LEMMA SettingFacts ==
    ASSUME setting \in Settings
    PROVE  /\ Kind \in [Procs -> Kinds] /\ Secret \in [Procs -> Nat \ {0}]
           /\ TTL \in Nat /\ TTL > 0 /\ Lifetime \in Nat /\ Lifetime > 0
           /\ Grace \in Nat /\ Retention \in Nat /\ Horizon \in Nat
           /\ RedisFaults \in Nat /\ Crashes \in Nat
<1> DEFINE s == setting
<1>1. /\ s.kind \in [Procs -> Kinds]
      /\ s.secret \in [Procs -> Nat \ {0}]
      /\ {s.ttl, s.grace, s.lifetime, s.retention, s.horizon} \subseteq Nat
      /\ s.ttl > 0 /\ s.lifetime > 0
      /\ s.redisFaults \in Nat /\ s.crashes \in Nat
  BY SessionAssumption
<1> QED
  BY <1>1 DEF Kind, Secret, TTL, Lifetime, Grace, Retention, Horizon, RedisFaults, Crashes

\* It stays.
LEMMA SettingStays ==
    ASSUME setting' = setting
    PROVE  /\ Kind' = Kind /\ Secret' = Secret /\ TTL' = TTL
           /\ Lifetime' = Lifetime /\ Horizon' = Horizon
           /\ RedisFaults' = RedisFaults
  BY DEF Kind, Secret, TTL, Lifetime, Horizon, RedisFaults

\* The arithmetic of deadlines: an active entry never outlives its deadline.
LEMMA Deadlines ==
    ASSUME setting \in Settings, NEW t \in Nat
    PROVE  /\ DeadlineAt(t) \in Nat
           /\ DeadlineAt(t) <= t + TTL
           /\ \A d \in Nat : ActiveUntil(d) \in Nat /\ ActiveUntil(d) <= d
  BY SettingFacts DEF DeadlineAt, ActiveUntil, Least

\* A denial lies in the future.
LEMMA Denials ==
    ASSUME setting \in Settings, now \in Nat
    PROVE  DenyUntil \in Nat /\ DenyUntil > now
  BY SettingFacts DEF DenyUntil, Least, Most

\* What the operations change in the local variables of a request.
LEMMA LocalFields ==
    ASSUME NEW l \in Locals, NEW r \in Rows, NEW n \in Nat,
           NEW g \in {"failed", "valid", "refresh", "rotated", "advanced",
                      "loggedin"},
           NEW b \in BOOLEAN, NEW c \in BOOLEAN, NEW d \in BOOLEAN
    PROVE  /\ [l EXCEPT !.seen = r, !.deadline = n] \in Locals
           /\ [l EXCEPT !.seen = r, !.noted = n] \in Locals
           /\ [l EXCEPT !.seen = r, !.goal = g, !.deadline = n] \in Locals
           /\ [l EXCEPT !.until = n] \in Locals
           /\ [l EXCEPT !.noted = n] \in Locals
           /\ [l EXCEPT !.tries = n] \in Locals
           /\ [l EXCEPT !.goal = g] \in Locals
           /\ [l EXCEPT !.late = b, !.gone = c, !.old = d, !.goal = g]
                 \in Locals
  BY DEF Locals

\* The local variables keep their type when those of one request do.
LEMMA LocalUpdate ==
    ASSUME NEW f \in [Procs -> Locals], NEW x \in Procs, NEW l \in Locals
    PROVE  [f EXCEPT ![x] = l] \in [Procs -> Locals]
  OBVIOUS

\* The types of the parts of the local variables.
LEMMA LocalParts ==
    ASSUME NEW l \in Locals
    PROVE  /\ l.seen \in Rows
           /\ l.seen.version \in Nat /\ l.seen.current \in Nat
           /\ l.deadline \in Nat /\ l.until \in Nat
           /\ l.noted \in Nat /\ l.tries \in Nat
           /\ l.goal \in Places
  BY DEF Locals, Rows, Places, Ended

\* A stored entry is an entry.
LEMMA StoredType ==
    ASSUME NEW s \in Statuses, NEW v \in Nat, NEW u \in Nat
    PROVE  Stored(s, v, u) \in [status : Statuses, version : Nat, until : Nat]
  BY DEF Stored, NoEntry, Statuses

\* A fault that is spent leaves the budget a budget.
LEMMA SpendType ==
    ASSUME NEW what \in {"redis", "crash"},
           budget \in [redis : Nat, crash : Nat], Spend(what)
    PROVE  budget' \in [redis : Nat, crash : Nat]
  BY DEF Spend


\* The steps of a request keep the types.
LEMMA TypeStep ==
    ASSUME TypeOK, NEW x \in Procs, Step(x), setting' = setting
    PROVE  TypeOK'
<1>1. loc[x] \in Locals /\ row \in Rows /\ now \in Nat /\ setting \in Settings
  BY DEF TypeOK
<1>2. /\ DeadlineAt(now) \in Nat
      /\ \A d \in Nat : ActiveUntil(d) \in Nat
      /\ DenyUntil \in Nat
  BY <1>1, Deadlines, Denials
<1>3. /\ loc[x].seen.version \in Nat /\ loc[x].seen.current \in Nat
      /\ loc[x].deadline \in Nat
      /\ loc[x].until \in Nat /\ loc[x].noted \in Nat
      /\ loc[x].tries \in Nat /\ loc[x].goal \in Places
  BY <1>1, LocalParts
<1>4. \A s \in {"active", "revoking", "revoked"}, u \in Nat :
         Stored(s, loc[x].seen.version, u)
            \in [status : Statuses, version : Nat, until : Nat]
  BY <1>3, StoredType DEF Statuses
<1>5. loc[x].tries + 1 \in Nat /\ loc[x].noted + Grace \in Nat
      /\ Secret[x] + 1 \in Nat /\ row.version + 1 \in Nat
  BY <1>1, <1>3, SettingFacts DEF Rows, TypeOK
<1>6. CASE CreateUserSession(x)
  <2>1. row' \in Rows
    BY <1>6, <1>1, <1>3, <1>5 DEF CreateUserSession, Rows, Statuses, NewRow
  <2>2. /\ [loc[x] EXCEPT !.seen = row', !.goal = "loggedin",
                !.deadline = DeadlineAt(now)] \in Locals
    BY <1>1, <1>2, <1>3, <1>5, <2>1, LocalFields DEF TypeOK, AfterRead
  <2>3. \/ loc' = [loc EXCEPT ![x] = [loc[x] EXCEPT !.seen = row',
                !.goal = "loggedin", !.deadline = DeadlineAt(now)]]
         \/ loc' = loc
    BY <1>6 DEF CreateUserSession
  <2>4. loc' \in [Procs -> Locals]
    BY <2>2, <2>3, LocalUpdate DEF TypeOK
  <2>5. at' \in [Procs -> Places]
    BY <1>6, <1>3 DEF CreateUserSession, TypeOK, Go, Places, Ended
  <2> QED
    BY <1>6, <2>1, <2>4, <2>5 DEF CreateUserSession, TypeOK
<1>7. CASE ReadEntry(x)
  <2>1. /\ [loc[x] EXCEPT !.late = acked, !.gone = ended # Never,
                !.old = ended # Never /\ ended + TTL <= now,
                !.goal = AfterRead(x)] \in Locals
    BY <1>1, <1>2, <1>3, <1>5, LocalFields, ZenonT(60) DEF TypeOK, AfterRead
  <2>2. \/ loc' = [loc EXCEPT ![x] = [loc[x] EXCEPT !.late = acked,
                !.gone = ended # Never,
                !.old = ended # Never /\ ended + TTL <= now,
                !.goal = AfterRead(x)]]
         \/ loc' = loc
    BY <1>7 DEF ReadEntry
  <2>3. loc' \in [Procs -> Locals]
    BY <2>1, <2>2, LocalUpdate DEF TypeOK
  <2>4. at' \in [Procs -> Places]
    BY <1>7, <1>3 DEF ReadEntry, TypeOK, Go, Places, Ended, AfterRead
  <2>5. budget' \in [redis : Nat, crash : Nat]
    BY <1>7, SpendType DEF ReadEntry, TypeOK
  <2> QED
    BY <1>7, <2>3, <2>4, <2>5 DEF ReadEntry, TypeOK
<1>8. CASE FetchRow(x)
  <2>1. /\ [loc[x] EXCEPT !.seen = row,
                !.deadline = DeadlineAt(now)] \in Locals
    BY <1>1, <1>2, <1>3, <1>5, LocalFields DEF TypeOK, AfterRead
  <2>2. \/ loc' = [loc EXCEPT ![x] = [loc[x] EXCEPT !.seen = row,
                !.deadline = DeadlineAt(now)]]
         \/ loc' = loc
    BY <1>8 DEF FetchRow
  <2>3. loc' \in [Procs -> Locals]
    BY <2>1, <2>2, LocalUpdate DEF TypeOK
  <2>4. at' \in [Procs -> Places]
    BY <1>8, <1>3 DEF FetchRow, TypeOK, Go, Places, Ended
  <2> QED
    BY <1>8, <2>3, <2>4 DEF FetchRow, TypeOK
<1>9. CASE Bury(x)
  <2>1. at' \in [Procs -> Places]
    BY <1>9, <1>3 DEF Bury, TypeOK, Go, Places, Ended
  <2>2. entry' \in [status : Statuses, version : Nat, until : Nat]
    BY <1>9, <1>2, <1>3, <1>4 DEF Bury, TypeOK
  <2>3. budget' \in [redis : Nat, crash : Nat]
    BY <1>9, SpendType DEF Bury, TypeOK
  <2> QED
    BY <1>9, <2>1, <2>2, <2>3 DEF Bury, TypeOK
<1>10. CASE PrepareActive(x)
  <2>1. /\ [loc[x] EXCEPT !.until = ActiveUntil(loc[x].deadline)] \in Locals
    BY <1>1, <1>2, <1>3, <1>5, LocalFields DEF TypeOK, AfterRead
  <2>2. \/ loc' = [loc EXCEPT ![x] = [loc[x] EXCEPT !.until = ActiveUntil(loc[x].deadline)]]
         \/ loc' = loc
    BY <1>10 DEF PrepareActive
  <2>3. loc' \in [Procs -> Locals]
    BY <2>1, <2>2, LocalUpdate DEF TypeOK
  <2>4. at' \in [Procs -> Places]
    BY <1>10, <1>3 DEF PrepareActive, TypeOK, Go, Places, Ended
  <2> QED
    BY <1>10, <2>3, <2>4 DEF PrepareActive, TypeOK
<1>11. CASE SendActive(x)
  <2>1. at' \in [Procs -> Places]
    BY <1>11, <1>3 DEF SendActive, TypeOK, Go, Places, Ended
  <2>2. entry' \in [status : Statuses, version : Nat, until : Nat]
    BY <1>11, <1>2, <1>3, <1>4 DEF SendActive, TypeOK
  <2>3. budget' \in [redis : Nat, crash : Nat]
    BY <1>11, SpendType DEF SendActive, TypeOK
  <2> QED
    BY <1>11, <2>1, <2>2, <2>3 DEF SendActive, TypeOK
<1>12. CASE Confirm(x)
  <2>1. at' \in [Procs -> Places]
    BY <1>12, <1>3 DEF Confirm, TypeOK, Go, Places, Ended
  <2> QED
    BY <1>12, <2>1 DEF Confirm, TypeOK
<1>13. CASE RotateStarts(x)
  <2>1. /\ [loc[x] EXCEPT !.noted = now] \in Locals
    BY <1>1, <1>2, <1>3, <1>5, LocalFields DEF TypeOK, AfterRead
  <2>2. \/ loc' = [loc EXCEPT ![x] = [loc[x] EXCEPT !.noted = now]]
         \/ loc' = loc
    BY <1>13 DEF RotateStarts
  <2>3. loc' \in [Procs -> Locals]
    BY <2>1, <2>2, LocalUpdate DEF TypeOK
  <2>4. at' \in [Procs -> Places]
    BY <1>13, <1>3 DEF RotateStarts, TypeOK, Go, Places, Ended
  <2> QED
    BY <1>13, <2>3, <2>4 DEF RotateStarts, TypeOK
<1>14. CASE RotateReads(x)
  <2>1. /\ [loc[x] EXCEPT !.seen = row,
                !.deadline = DeadlineAt(now)] \in Locals
    BY <1>1, <1>2, <1>3, <1>5, LocalFields DEF TypeOK, AfterRead
  <2>2. \/ loc' = [loc EXCEPT ![x] = [loc[x] EXCEPT !.seen = row,
                !.deadline = DeadlineAt(now)]]
         \/ loc' = loc
    BY <1>14 DEF RotateReads
  <2>3. loc' \in [Procs -> Locals]
    BY <2>1, <2>2, LocalUpdate DEF TypeOK
  <2>4. at' \in [Procs -> Places]
    BY <1>14, <1>3 DEF RotateReads, TypeOK, Go, Places, Ended
  <2> QED
    BY <1>14, <2>3, <2>4 DEF RotateReads, TypeOK
<1>15. CASE RotateSwaps(x)
  <2>1. row' \in Rows
    BY <1>15, <1>1, <1>3, <1>5 DEF RotateSwaps, Rows, Statuses, NewRow
  <2>2. /\ [loc[x] EXCEPT !.goal = "rotated"] \in Locals
         /\ [loc[x] EXCEPT !.tries = loc[x].tries + 1] \in Locals
    BY <1>1, <1>2, <1>3, <1>5, <2>1, LocalFields DEF TypeOK, AfterRead
  <2>3. \/ loc' = [loc EXCEPT ![x] = [loc[x] EXCEPT !.goal = "rotated"]]
         \/ loc' = [loc EXCEPT ![x] = [loc[x] EXCEPT !.tries = loc[x].tries + 1]]
         \/ loc' = loc
    BY <1>15 DEF RotateSwaps
  <2>4. loc' \in [Procs -> Locals]
    BY <2>2, <2>3, LocalUpdate DEF TypeOK
  <2>5. at' \in [Procs -> Places]
    BY <1>15, <1>3 DEF RotateSwaps, TypeOK, Go, Places, Ended
  <2> QED
    BY <1>15, <2>1, <2>4, <2>5 DEF RotateSwaps, TypeOK
<1>16. CASE RevokeReads(x)
  <2>1. /\ [loc[x] EXCEPT !.seen = row,
                !.noted = IF at[x] = "start" THEN now ELSE loc[x].noted] \in Locals
    BY <1>1, <1>2, <1>3, <1>5, LocalFields DEF TypeOK, AfterRead
  <2>2. \/ loc' = [loc EXCEPT ![x] = [loc[x] EXCEPT !.seen = row,
                !.noted = IF at[x] = "start" THEN now ELSE loc[x].noted]]
         \/ loc' = loc
    BY <1>16 DEF RevokeReads
  <2>3. loc' \in [Procs -> Locals]
    BY <2>1, <2>2, LocalUpdate DEF TypeOK
  <2>4. at' \in [Procs -> Places]
    BY <1>16, <1>3 DEF RevokeReads, TypeOK, Go, Places, Ended
  <2> QED
    BY <1>16, <2>3, <2>4 DEF RevokeReads, TypeOK
<1>17. CASE LogoutReads(x)
  <2>1. /\ [loc[x] EXCEPT !.seen = row, !.noted = now] \in Locals
    BY <1>1, <1>2, <1>3, <1>5, LocalFields DEF TypeOK, AfterRead
  <2>2. \/ loc' = [loc EXCEPT ![x] = [loc[x] EXCEPT !.seen = row,
                !.noted = now]]
         \/ loc' = loc
    BY <1>17 DEF LogoutReads
  <2>3. loc' \in [Procs -> Locals]
    BY <2>1, <2>2, LocalUpdate DEF TypeOK
  <2>4. at' \in [Procs -> Places]
    BY <1>17, <1>3 DEF LogoutReads, TypeOK, Go, Places, Ended
  <2> QED
    BY <1>17, <2>3, <2>4 DEF LogoutReads, TypeOK
<1>18. CASE WriteDenyFence(x)
  <2>1. at' \in [Procs -> Places]
    BY <1>18, <1>3 DEF WriteDenyFence, TypeOK, Go, Places, Ended
  <2>2. entry' \in [status : Statuses, version : Nat, until : Nat]
    BY <1>18, <1>2, <1>3, <1>4 DEF WriteDenyFence, TypeOK, Fence
  <2>3. budget' \in [redis : Nat, crash : Nat]
    BY <1>18, SpendType DEF WriteDenyFence, TypeOK
  <2> QED
    BY <1>18, <2>1, <2>2, <2>3 DEF WriteDenyFence, TypeOK
<1>19. CASE RevokeUpdates(x)
  <2>1. row' \in Rows
    BY <1>19, <1>1, <1>3, <1>5 DEF RevokeUpdates, Rows, Statuses, NewRow
  <2>2. at' \in [Procs -> Places]
    BY <1>19, <1>3 DEF RevokeUpdates, TypeOK, Go, Places, Ended
  <2> QED
    BY <1>19, <2>1, <2>2 DEF RevokeUpdates, TypeOK
<1>20. CASE WriteTombstone(x)
  <2>1. at' \in [Procs -> Places]
    BY <1>20, <1>3 DEF WriteTombstone, TypeOK, Go, Places, Ended
  <2>2. entry' \in [status : Statuses, version : Nat, until : Nat]
    BY <1>20, <1>2, <1>3, <1>4, ZenonT(60) DEF WriteTombstone, TypeOK, Tombstone
  <2>3. budget' \in [redis : Nat, crash : Nat]
    BY <1>20, SpendType DEF WriteTombstone, TypeOK
  <2> QED
    BY <1>20, <2>1, <2>2, <2>3 DEF WriteTombstone, TypeOK
<1>21. CASE AdvanceUserSession(x)
  <2>1. row' \in Rows
    BY <1>21, <1>1, <1>3, <1>5 DEF AdvanceUserSession, Rows, Statuses, NewRow
  <2>2. /\ [loc[x] EXCEPT !.seen = row', !.goal = "advanced",
                !.deadline = DeadlineAt(now)] \in Locals
    BY <1>1, <1>2, <1>3, <1>5, <2>1, LocalFields DEF TypeOK, AfterRead
  <2>3. \/ loc' = [loc EXCEPT ![x] = [loc[x] EXCEPT !.seen = row',
                !.goal = "advanced", !.deadline = DeadlineAt(now)]]
         \/ loc' = loc
    BY <1>21 DEF AdvanceUserSession
  <2>4. loc' \in [Procs -> Locals]
    BY <2>2, <2>3, LocalUpdate DEF TypeOK
  <2>5. at' \in [Procs -> Places]
    BY <1>21, <1>3 DEF AdvanceUserSession, TypeOK, Go, Places, Ended
  <2> QED
    BY <1>21, <2>1, <2>4, <2>5 DEF AdvanceUserSession, TypeOK
<1>22. CASE Crash(x)
  <2>1. at' \in [Procs -> Places]
    BY <1>22, <1>3 DEF Crash, TypeOK, Go, Places, Ended
  <2>2. budget' \in [redis : Nat, crash : Nat]
    BY <1>22, SpendType DEF Crash, TypeOK
  <2> QED
    BY <1>22, <2>1, <2>2 DEF Crash, TypeOK
<1> QED
  BY <1>6, <1>7, <1>8, <1>9, <1>10, <1>11, <1>12, <1>13, <1>14, <1>15, <1>16,
     <1>17, <1>18, <1>19, <1>20, <1>21, <1>22 DEF Step


\* Every step keeps the types.
LEMMA TypeNext == TypeOK /\ [Next]_vars => TypeOK'
<1> SUFFICES ASSUME TypeOK, [Next]_vars PROVE TypeOK'
  OBVIOUS
<1>0. setting' = setting
  BY DEF Next, vars
<1>1. CASE UNCHANGED vars
  BY <1>1 DEF vars, TypeOK
<1>2. CASE Tick
  BY <1>0, <1>2 DEF Tick, NoEntry, TypeOK, Statuses
<1>3. CASE DeleteOldSession
  BY <1>0, <1>3 DEF DeleteOldSession, NoRow, Rows, TypeOK, Statuses, Never
<1> QED
  BY <1>0, <1>1, <1>2, <1>3, TypeStep DEF Next

\* The first state has the types.
LEMMA TypeInit == Init => TypeOK
<1> SUFFICES ASSUME Init PROVE TypeOK
  OBVIOUS
<1>1. NoRow \in Rows /\ NewRow \in Rows
  BY DEF NoRow, NewRow, Rows, Statuses
<1>2. loc \in [Procs -> Locals]
  BY <1>1 DEF Init, Locals
<1>3. at \in [Procs -> Places]
  BY DEF Init, Places
<1>4. entry \in [status : Statuses, version : Nat, until : Nat]
  BY DEF Init, NoEntry, Statuses
<1>5. row \in Rows
  BY <1>1 DEF Init
<1>6. budget \in [redis : Nat, crash : Nat]
  BY SettingFacts DEF Init
<1>7. now \in Nat /\ ended \in Int
  BY DEF Init, Never
<1>8. acked \in BOOLEAN /\ holder \in Procs \cup {NoProc} /\ setting \in Settings
  BY Zenon DEF Init
<1> QED
  BY <1>2, <1>3, <1>4, <1>5, <1>6, <1>7, <1>8 DEF TypeOK

\* The types of UserSession: its row, the entry in Redis and the requests.
THEOREM TypeCorrect == Spec => []TypeOK
<1>1. Init => TypeOK
  BY TypeInit
<1>2. TypeOK /\ [Next]_vars => TypeOK'
  BY TypeNext
<1> QED
  BY <1>1, <1>2, PTL DEF Spec

-----------------------------------------------------------------------------
(* A revoked session is refused one TTL later.                             *)

\* What Bounded says of one request.
BoundedAt(x) ==
    /\ at[x] \in {"swap", "prepare", "send"} => loc[x].deadline <= now + TTL
    /\ at[x] \in {"prepare", "send"} /\ ended # Never =>
          loc[x].deadline <= ended + TTL
    /\ at[x] = "send" => loc[x].until <= loc[x].deadline
    /\ loc[x].old => ended # Never /\ at[x] \in {"fetch", "bury", "failed",
                                                 "denied"}

\* What it says of the row and the entry.
BoundedStore ==
    /\ ended = Never \/ ended \in 0 .. now
    /\ row.status = "active" => ended = Never
    /\ entry.status # "none" => entry.until > now
    /\ entry.status = "active" =>
          /\ entry.until <= now + TTL
          /\ ended # Never => entry.until <= ended + TTL

LEMMA BoundedSplit == Bounded <=> BoundedStore /\ \A x \in Procs : BoundedAt(x)
  BY DEF Bounded, BoundedAt, BoundedStore

\* A step of one request leaves the others alone.
LEMMA StepOthers ==
    ASSUME TypeOK, NEW x \in Procs, Step(x), NEW y \in Procs, y # x
    PROVE  at'[y] = at[y] /\ loc'[y] = loc[y]
<1>1. CASE CreateUserSession(x)
  BY <1>1 DEF CreateUserSession, Go, TypeOK
<1>2. CASE ReadEntry(x)
  BY <1>2 DEF ReadEntry, Go, TypeOK
<1>3. CASE FetchRow(x)
  BY <1>3 DEF FetchRow, Go, TypeOK
<1>4. CASE Bury(x)
  BY <1>4 DEF Bury, Go, TypeOK
<1>5. CASE PrepareActive(x)
  BY <1>5 DEF PrepareActive, Go, TypeOK
<1>6. CASE SendActive(x)
  BY <1>6 DEF SendActive, Go, TypeOK
<1>7. CASE Confirm(x)
  BY <1>7 DEF Confirm, Go, TypeOK
<1>8. CASE RotateStarts(x)
  BY <1>8 DEF RotateStarts, Go, TypeOK
<1>9. CASE RotateReads(x)
  BY <1>9 DEF RotateReads, Go, TypeOK
<1>10. CASE RotateSwaps(x)
  BY <1>10 DEF RotateSwaps, Go, TypeOK
<1>11. CASE RevokeReads(x)
  BY <1>11 DEF RevokeReads, Go, TypeOK
<1>12. CASE LogoutReads(x)
  BY <1>12 DEF LogoutReads, Go, TypeOK
<1>13. CASE WriteDenyFence(x)
  BY <1>13 DEF WriteDenyFence, Go, TypeOK
<1>14. CASE RevokeUpdates(x)
  BY <1>14 DEF RevokeUpdates, Go, TypeOK
<1>15. CASE WriteTombstone(x)
  BY <1>15 DEF WriteTombstone, Go, TypeOK
<1>16. CASE AdvanceUserSession(x)
  BY <1>16 DEF AdvanceUserSession, Go, TypeOK
<1>17. CASE Crash(x)
  BY <1>17 DEF Crash, Go, TypeOK
<1> QED
  BY <1>1, <1>2, <1>3, <1>4, <1>5, <1>6, <1>7, <1>8, <1>9, <1>10, <1>11,
     <1>12, <1>13, <1>14, <1>15, <1>16, <1>17 DEF Step

\* Time stands still meanwhile, and the row stops being active once.
LEMMA StepEnds ==
    ASSUME TypeOK, Bounded, NEW x \in Procs, Step(x)
    PROVE  now' = now /\ (ended' = ended \/ (ended = Never /\ ended' = now))
<1>1. CASE CreateUserSession(x)
  BY <1>1 DEF CreateUserSession
<1>2. CASE ReadEntry(x)
  BY <1>2 DEF ReadEntry
<1>3. CASE FetchRow(x)
  BY <1>3 DEF FetchRow
<1>4. CASE Bury(x)
  BY <1>4 DEF Bury
<1>5. CASE PrepareActive(x)
  BY <1>5 DEF PrepareActive
<1>6. CASE SendActive(x)
  BY <1>6 DEF SendActive
<1>7. CASE Confirm(x)
  BY <1>7 DEF Confirm
<1>8. CASE RotateStarts(x)
  BY <1>8 DEF RotateStarts
<1>9. CASE RotateReads(x)
  BY <1>9 DEF RotateReads
<1>10. CASE RotateSwaps(x)
  BY <1>10 DEF RotateSwaps
<1>11. CASE RevokeReads(x)
  BY <1>11 DEF RevokeReads
<1>12. CASE LogoutReads(x)
  BY <1>12 DEF LogoutReads
<1>13. CASE WriteDenyFence(x)
  BY <1>13 DEF WriteDenyFence
<1>14. CASE RevokeUpdates(x)
  BY <1>14 DEF RevokeUpdates, Usable, Bounded, Never, TypeOK
<1>15. CASE WriteTombstone(x)
  BY <1>15 DEF WriteTombstone
<1>16. CASE AdvanceUserSession(x)
  BY <1>16 DEF AdvanceUserSession
<1>17. CASE Crash(x)
  BY <1>17 DEF Crash
<1> QED
  BY <1>1, <1>2, <1>3, <1>4, <1>5, <1>6, <1>7, <1>8, <1>9, <1>10, <1>11,
     <1>12, <1>13, <1>14, <1>15, <1>16, <1>17 DEF Step

\* A request keeps the bounds of the others: the row is given up now.
LEMMA BoundedOthers ==
    ASSUME TypeOK, Bounded, NEW x \in Procs, Step(x), setting' = setting,
           NEW y \in Procs, y # x
    PROVE  BoundedAt(y)'
<1>1. at'[y] = at[y] /\ loc'[y] = loc[y]
  BY StepOthers
<1>2. now' = now /\ (ended' = ended \/ (ended = Never /\ ended' = now))
  BY StepEnds
<1>3. loc[y] \in Locals /\ now \in Nat /\ TTL \in Nat /\ TTL' = TTL
  BY SettingFacts, SettingStays DEF TypeOK
<1>4. BoundedAt(y)
  BY BoundedSplit
<1>5. now # Never
  BY <1>3 DEF Never
<1> QED
  BY <1>1, <1>2, <1>3, <1>4, <1>5, LocalParts DEF BoundedAt

\* A request keeps its own bounds.
LEMMA BoundedOwn ==
    ASSUME TypeOK, Bounded, NEW x \in Procs, Step(x), setting' = setting
    PROVE  BoundedAt(x)'
<1>1. /\ loc[x] \in Locals /\ now \in Nat /\ TTL \in Nat /\ TTL > 0
      /\ TTL' = TTL /\ setting \in Settings
  BY SettingFacts, SettingStays DEF TypeOK
<1>2. BoundedAt(x) /\ BoundedStore
  BY BoundedSplit
<1>3. /\ DeadlineAt(now) \in Nat /\ DeadlineAt(now) <= now + TTL
      /\ \A d \in Nat : ActiveUntil(d) \in Nat /\ ActiveUntil(d) <= d
  BY <1>1, Deadlines
<1>4. loc[x].deadline \in Nat /\ loc[x].until \in Nat /\ loc[x].goal \in Places
  BY <1>1, LocalParts
<1>5. loc[x].goal \in {"failed", "valid", "refresh", "rotated", "advanced",
                      "loggedin"}
  BY <1>1 DEF Locals
<1> USE DEF TypeOK, Go, BoundedAt, BoundedStore, Never
<1>6. CASE CreateUserSession(x)
  BY <1>1, <1>2, <1>3, <1>4, <1>5, <1>6 DEF CreateUserSession, Issued, NewRow
<1>7. CASE ReadEntry(x)
  <2>1. /\ at'[x] \in {"fetch", "valid", "refresh", "denied"}
        /\ entry.status # "active" => at'[x] \in {"fetch", "denied"}
        /\ ended' = ended /\ now' = now
    BY <1>7 DEF ReadEntry, AfterRead
  <2>4. loc'[x] = [loc[x] EXCEPT !.late = acked, !.gone = ended # Never,
                     !.old = ended # Never /\ ended + TTL <= now,
                     !.goal = AfterRead(x)]
    BY <1>7 DEF ReadEntry
  <2>2. loc'[x].old => ended # Never /\ ended + TTL <= now
    BY <1>1, <2>4 DEF Locals
  <2>3. loc'[x].old => entry.status # "active"
    BY <1>1, <1>2, <2>2
  <2> QED
    BY <2>1, <2>2, <2>3
<1>8. CASE FetchRow(x)
  BY <1>1, <1>2, <1>3, <1>4, <1>5, <1>8 DEF FetchRow, Usable
<1>9. CASE Bury(x)
  BY <1>1, <1>2, <1>3, <1>4, <1>5, <1>9 DEF Bury
<1>10. CASE PrepareActive(x)
  <2>1. /\ ended' = ended /\ now' = now
        /\ at'[x] \in {"confirm", "denied", "send"}
        /\ at[x] = "prepare"
        /\ \/ loc'[x] = loc[x] /\ at'[x] # "send"
           \/ loc'[x] = [loc[x] EXCEPT !.until = ActiveUntil(loc[x].deadline)]
    BY <1>10 DEF PrepareActive
  <2>2. /\ loc'[x].deadline = loc[x].deadline
        /\ loc'[x].old = loc[x].old
        /\ at'[x] = "send" => loc'[x].until = ActiveUntil(loc[x].deadline)
    BY <1>1, <2>1 DEF Locals
  <2>3. ~loc[x].old
    BY <1>2, <2>1
  <2>4. ~loc'[x].old
    BY <2>2, <2>3, Zenon
  <2> QED
    BY <1>1, <1>2, <1>3, <1>4, <2>1, <2>2, <2>4
<1>11. CASE SendActive(x)
  BY <1>1, <1>2, <1>3, <1>4, <1>5, <1>11 DEF SendActive
<1>12. CASE Confirm(x)
  BY <1>1, <1>2, <1>3, <1>4, <1>5, <1>12 DEF Confirm
<1>13. CASE RotateStarts(x)
  BY <1>1, <1>2, <1>3, <1>4, <1>5, <1>13 DEF RotateStarts
<1>14. CASE RotateReads(x)
  BY <1>1, <1>2, <1>3, <1>4, <1>5, <1>14 DEF RotateReads, Usable
<1>15. CASE RotateSwaps(x)
  <2>1. /\ ended' = ended /\ now' = now
        /\ at[x] = "swap"
        /\ at'[x] \in {"prepare", "rotate", "invalid"}
        /\ at'[x] = "prepare" => row.status = "active"
        /\ \/ loc'[x] = [loc[x] EXCEPT !.goal = "rotated"]
           \/ loc'[x] = [loc[x] EXCEPT !.tries = loc[x].tries + 1]
    BY <1>15 DEF RotateSwaps, Usable, Swappable
  <2>2. loc'[x].deadline = loc[x].deadline /\ loc'[x].old = loc[x].old
    BY <1>1, <2>1 DEF Locals
  <2>3. ~loc[x].old
    BY <1>2, <2>1
  <2>4. ~loc'[x].old
    BY <2>2, <2>3, Zenon
  <2> QED
    BY <1>1, <1>2, <1>4, <2>1, <2>2, <2>4
<1>16. CASE RevokeReads(x)
  BY <1>1, <1>2, <1>3, <1>4, <1>5, <1>16 DEF RevokeReads
<1>17. CASE LogoutReads(x)
  BY <1>1, <1>2, <1>3, <1>4, <1>5, <1>17 DEF LogoutReads
<1>18. CASE WriteDenyFence(x)
  BY <1>1, <1>2, <1>3, <1>4, <1>5, <1>18 DEF WriteDenyFence
<1>19. CASE RevokeUpdates(x)
  BY <1>1, <1>2, <1>3, <1>4, <1>5, <1>19 DEF RevokeUpdates, Usable
<1>20. CASE WriteTombstone(x)
  BY <1>1, <1>2, <1>3, <1>4, <1>5, <1>20 DEF WriteTombstone
<1>21. CASE AdvanceUserSession(x)
  <2>1. CASE row' # row
    <3>1. /\ at[x] = "start" /\ at'[x] = "prepare"
          /\ row.status = "active"
          /\ ended' = ended /\ now' = now
          /\ loc'[x] = [loc[x] EXCEPT !.seen = row', !.goal = "advanced",
                                      !.deadline = DeadlineAt(now)]
      BY <1>21, <2>1 DEF AdvanceUserSession, Usable
    <3>2. loc'[x].deadline = DeadlineAt(now) /\ loc'[x].old = loc[x].old
      BY <1>1, <3>1 DEF Locals
    <3>3. ~loc[x].old
      BY <1>2, <3>1
    <3>4. ~loc'[x].old
      BY <3>2, <3>3, Zenon
    <3> QED
      BY <1>1, <1>2, <1>3, <3>1, <3>2, <3>4
  <2>2. CASE row' = row
    <3>1. row.version \in Nat
      BY DEF Rows
    <3>2. row.version + 1 # row.version
      BY <3>1
    <3>3. at'[x] = "denied" /\ loc' = loc /\ ended' = ended /\ now' = now
      BY <1>21, <2>2, <3>2 DEF AdvanceUserSession, Rows
    <3> QED
      BY <1>2, <3>3
  <2> QED
    BY <2>1, <2>2
<1>22. CASE Crash(x)
  BY <1>1, <1>2, <1>3, <1>4, <1>5, <1>22 DEF Crash
<1> QED
  BY <1>6, <1>7, <1>8, <1>9, <1>10, <1>11, <1>12, <1>13, <1>14, <1>15, <1>16,
     <1>17, <1>18, <1>19, <1>20, <1>21, <1>22 DEF Step

\* A request keeps the bounds of the row and the entry.
LEMMA BoundedRow ==
    ASSUME TypeOK, Bounded, NEW x \in Procs, Step(x), setting' = setting
    PROVE  BoundedStore'
<1>1. /\ loc[x] \in Locals /\ now \in Nat /\ TTL \in Nat /\ TTL > 0
      /\ TTL' = TTL /\ setting \in Settings
  BY SettingFacts, SettingStays DEF TypeOK
<1>2. BoundedAt(x) /\ BoundedStore
  BY BoundedSplit
<1>3. DenyUntil \in Nat /\ DenyUntil > now
  BY <1>1, Denials
<1>4. loc[x].deadline \in Nat /\ loc[x].until \in Nat
  BY <1>1, LocalParts
<1> USE DEF TypeOK, BoundedAt, BoundedStore, Never
<1>5. CASE CreateUserSession(x)
  BY <1>1, <1>2, <1>3, <1>4, <1>5 DEF CreateUserSession, Issued, NewRow, NoRow
<1>6. CASE ReadEntry(x)
  BY <1>1, <1>2, <1>3, <1>4, <1>6 DEF ReadEntry
<1>7. CASE FetchRow(x)
  BY <1>1, <1>2, <1>3, <1>4, <1>7 DEF FetchRow
<1>8. CASE Bury(x)
  BY <1>1, <1>2, <1>3, <1>4, <1>8 DEF Bury, Stored, NoEntry
<1>9. CASE PrepareActive(x)
  BY <1>1, <1>2, <1>3, <1>4, <1>9 DEF PrepareActive
<1>10. CASE SendActive(x)
  BY <1>1, <1>2, <1>3, <1>4, <1>10 DEF SendActive, Stored, NoEntry
<1>11. CASE Confirm(x)
  BY <1>1, <1>2, <1>3, <1>4, <1>11 DEF Confirm
<1>12. CASE RotateStarts(x)
  BY <1>1, <1>2, <1>3, <1>4, <1>12 DEF RotateStarts
<1>13. CASE RotateReads(x)
  BY <1>1, <1>2, <1>3, <1>4, <1>13 DEF RotateReads
<1>14. CASE RotateSwaps(x)
  BY <1>1, <1>2, <1>3, <1>4, <1>14 DEF RotateSwaps, Usable, Rows, Swappable
<1>15. CASE RevokeReads(x)
  BY <1>1, <1>2, <1>3, <1>4, <1>15 DEF RevokeReads
<1>16. CASE LogoutReads(x)
  BY <1>1, <1>2, <1>3, <1>4, <1>16 DEF LogoutReads
<1>17. CASE WriteDenyFence(x)
  BY <1>1, <1>2, <1>3, <1>4, <1>17 DEF WriteDenyFence, Stored, NoEntry, Fence
<1>18. CASE RevokeUpdates(x)
  <2>1. /\ entry' = entry /\ now' = now
        /\ \/ row'.status = "revoked" /\ ended' = now /\ ended = Never
           \/ row' = row /\ ended' = ended
    BY <1>2, <1>18 DEF RevokeUpdates, Usable, Rows
  <2> QED
    BY <1>1, <1>2, <2>1
<1>19. CASE WriteTombstone(x)
  BY <1>1, <1>2, <1>3, <1>4, <1>19 DEF WriteTombstone, Stored, NoEntry,
     Tombstone
<1>20. CASE AdvanceUserSession(x)
  BY <1>1, <1>2, <1>3, <1>4, <1>20 DEF AdvanceUserSession, Usable, Rows
<1>21. CASE Crash(x)
  BY <1>1, <1>2, <1>3, <1>4, <1>21 DEF Crash
<1> QED
  BY <1>5, <1>6, <1>7, <1>8, <1>9, <1>10, <1>11, <1>12, <1>13, <1>14, <1>15,
     <1>16, <1>17, <1>18, <1>19, <1>20, <1>21 DEF Step

\* Every step keeps the bounds.
LEMMA BoundedNext == TypeOK /\ Bounded /\ [Next]_vars => Bounded'
<1> SUFFICES ASSUME TypeOK, Bounded, [Next]_vars PROVE Bounded'
  OBVIOUS
<1>0. setting' = setting
  BY DEF Next, vars
<1>1. CASE UNCHANGED vars
  BY <1>1, SettingStays DEF vars, Bounded
<1>2. CASE Tick
  <2>1. /\ now \in Nat /\ TTL \in Nat /\ TTL' = TTL
        /\ \A x \in Procs : loc[x].deadline \in Nat
    BY <1>0, SettingFacts, SettingStays, LocalParts DEF TypeOK
  <2> QED
    BY <1>2, <2>1 DEF Tick, Bounded, NoEntry, Never, TypeOK
<1>3. CASE DeleteOldSession
  <2>1. /\ now \in Nat /\ TTL \in Nat /\ TTL' = TTL
        /\ \A x \in Procs : loc[x].deadline \in Nat
    BY <1>0, SettingFacts, SettingStays, LocalParts DEF TypeOK
  <2> QED
    BY <1>3, <2>1 DEF DeleteOldSession, Bounded, NoRow, Never, TypeOK
<1>4. ASSUME NEW x \in Procs, Step(x) PROVE Bounded'
  <2>1. BoundedStore'
    BY <1>0, <1>4, BoundedRow
  <2>2. \A y \in Procs : BoundedAt(y)'
    BY <1>0, <1>4, BoundedOwn, BoundedOthers
  <2> QED
    BY <2>1, <2>2 DEF Bounded, BoundedAt, BoundedStore
<1> QED
  BY <1>1, <1>2, <1>3, <1>4 DEF Next

\* Whatever Redis loses and wherever a revocation stops, a session whose row
\* is revoked is refused one TTL later, for every TTL and every number of
\* requests.
THEOREM StaleAtMost == Spec => []StaleAtMostTTL
<1>1. Init => TypeOK /\ Bounded
  <2>1. Init => Bounded
    BY DEF Init, Bounded, NoEntry, Never
  <2> QED
    BY <2>1, TypeInit
<1>2. TypeOK /\ Bounded /\ [Next]_vars => (TypeOK /\ Bounded)'
  BY TypeNext, BoundedNext
<1>3. TypeOK /\ Bounded => StaleAtMostTTL
  BY DEF Bounded, StaleAtMostTTL, Passed
<1> QED
  BY <1>1, <1>2, <1>3, PTL DEF Spec


-----------------------------------------------------------------------------
(* A refresh secret is exchanged once.                                     *)

\* What a request does to the row: the row is made, its secret is exchanged
\* for the next one, or the secrets stay.
Exchanges(x) ==
    /\ at[x] = "swap" /\ row.status = "active" /\ row.current = Secret[x]
    /\ row'.status = "active" /\ row'.current = Secret[x] + 1
    /\ row'.previous = loc[x].seen.current
    /\ loc'[x].goal = "rotated"

SecretsStay ==
    /\ row'.current = row.current /\ row'.previous = row.previous
    /\ row' = row \/ (row.status = "active" /\ row'.status # "none")
    /\ row.status # "active" => row'.status # "active"

LEMMA RowMoves ==
    ASSUME TypeOK, NEW x \in Procs, Step(x)
    PROVE  \/ Exchanges(x)
           \/ SecretsStay /\ (loc'[x].goal = "rotated" => loc[x].goal = "rotated")
           \/ ~Issued /\ row' = NewRow /\ loc'[x].goal # "rotated"
<1> USE DEF TypeOK, SecretsStay
<1>0. loc[x] \in Locals /\ row \in Rows
  OBVIOUS
<1>1. CASE CreateUserSession(x)
  BY <1>0, <1>1 DEF CreateUserSession, Locals
<1>2. CASE ReadEntry(x)
  BY <1>0, <1>2 DEF ReadEntry, AfterRead, Locals
<1>3. CASE FetchRow(x)
  BY <1>0, <1>3 DEF FetchRow, Locals
<1>4. CASE Bury(x)
  BY <1>4 DEF Bury
<1>5. CASE PrepareActive(x)
  BY <1>0, <1>5 DEF PrepareActive, Locals
<1>6. CASE SendActive(x)
  BY <1>6 DEF SendActive
<1>7. CASE Confirm(x)
  BY <1>7 DEF Confirm
<1>8. CASE RotateStarts(x)
  BY <1>0, <1>8 DEF RotateStarts, Locals
<1>9. CASE RotateReads(x)
  BY <1>0, <1>9 DEF RotateReads, Locals
<1>10. CASE RotateSwaps(x)
  <2>1. CASE ~Swappable(x)
    BY <1>0, <1>10, <2>1 DEF RotateSwaps, Locals
  <2>2. CASE Swappable(x)
    <3>1. /\ at[x] = "swap" /\ row.status = "active" /\ row.current = Secret[x]
          /\ row' = [row EXCEPT !.previous = loc[x].seen.current,
                               !.validUntil = loc[x].noted + Grace,
                               !.current = Secret[x] + 1]
          /\ loc' = [loc EXCEPT ![x].goal = "rotated"]
      BY <1>10, <2>2 DEF RotateSwaps, Swappable, Usable
    <3>2. /\ row'.status = "active" /\ row'.current = Secret[x] + 1
          /\ row'.previous = loc[x].seen.current
      BY <1>0, <3>1 DEF Rows
    <3>3. loc'[x].goal = "rotated"
      BY <1>0, <3>1 DEF Locals
    <3> QED
      BY <3>1, <3>2, <3>3 DEF Exchanges
  <2> QED
    BY <2>1, <2>2
<1>11. CASE RevokeReads(x)
  BY <1>0, <1>11 DEF RevokeReads, Locals
<1>12. CASE LogoutReads(x)
  BY <1>0, <1>12 DEF LogoutReads, Locals
<1>13. CASE WriteDenyFence(x)
  BY <1>13 DEF WriteDenyFence
<1>14. CASE RevokeUpdates(x)
  BY <1>0, <1>14 DEF RevokeUpdates, Usable, Rows
<1>15. CASE WriteTombstone(x)
  BY <1>15 DEF WriteTombstone
<1>16. CASE AdvanceUserSession(x)
  BY <1>0, <1>16 DEF AdvanceUserSession, Usable, Rows, Locals
<1>17. CASE Crash(x)
  BY <1>17 DEF Crash
<1> QED
  BY <1>1, <1>2, <1>3, <1>4, <1>5, <1>6, <1>7, <1>8, <1>9, <1>10, <1>11,
     <1>12, <1>13, <1>14, <1>15, <1>16, <1>17 DEF Step

\* What a request that exchanges a secret, or lost the race for it, has read.
ReadAt(x) ==
    /\ at[x] = "swap" => loc[x].seen.current = Secret[x]
    /\ at[x] = "raced" => loc[x].seen.current = Secret[x] + 1

\* A secret that was exchanged is behind the row for good.
WonAt(x) ==
    loc[x].goal = "rotated" =>
        Issued /\ (row.status = "active" => row.current > Secret[x])

RefreshInv ==
    /\ row.previous # 0 => row.current = row.previous + 1
    /\ \A x \in Procs : ReadAt(x) /\ WonAt(x)
    /\ SingleWinner

LEMMA ReadOwn ==
    ASSUME TypeOK, RefreshInv, NEW x \in Procs, Step(x), setting' = setting
    PROVE  ReadAt(x)'
<1>0. /\ loc[x] \in Locals /\ row \in Rows /\ Secret' = Secret
      /\ Secret[x] \in Nat /\ ReadAt(x)
      /\ row.previous # 0 => row.current = row.previous + 1
  BY SettingFacts, SettingStays DEF TypeOK, RefreshInv
<1>1. CASE RotateReads(x)
  <2>1. loc'[x].seen = row
    BY <1>0, <1>1 DEF RotateReads, TypeOK, Locals
  <2>2. at'[x] = "swap" => row.current = Secret[x]
    BY <1>1 DEF RotateReads, Go, TypeOK
  <2>3. at'[x] = "raced" => row.previous # 0 /\ row.previous = Secret[x]
    BY <1>1 DEF RotateReads, Recognised, Go, TypeOK
  <2> QED
    BY <1>0, <2>1, <2>2, <2>3 DEF ReadAt
<1>2. CASE ~RotateReads(x)
  <2>1. at'[x] \notin {"swap", "raced"}
    <3> USE <1>0, <1>2 DEF Go, TypeOK
    <3>1. CASE CreateUserSession(x) \/ ReadEntry(x) \/ FetchRow(x) \/ Bury(x)
      BY <3>1 DEF CreateUserSession, ReadEntry, AfterRead, FetchRow, Bury
    <3>2. CASE PrepareActive(x) \/ SendActive(x) \/ Confirm(x)
      BY <3>2 DEF PrepareActive, SendActive, Confirm, Locals
    <3>3. CASE RotateStarts(x) \/ RotateSwaps(x) \/ RevokeReads(x)
      BY <3>3 DEF RotateStarts, RotateSwaps, RevokeReads
    <3>4. CASE LogoutReads(x) \/ WriteDenyFence(x) \/ RevokeUpdates(x)
      BY <3>4 DEF LogoutReads, WriteDenyFence, RevokeUpdates
    <3>5. CASE WriteTombstone(x) \/ AdvanceUserSession(x) \/ Crash(x)
      BY <3>5 DEF WriteTombstone, AdvanceUserSession, Crash
    <3> QED
      BY <3>1, <3>2, <3>3, <3>4, <3>5 DEF Step
  <2> QED
    BY <2>1 DEF ReadAt
<1> QED
  BY <1>1, <1>2

LEMMA RefreshStep ==
    ASSUME TypeOK, Bounded, RefreshInv, NEW x \in Procs, Step(x), setting' = setting
    PROVE  RefreshInv'
<1>1. /\ Secret' = Secret /\ \A y \in Procs : Secret[y] \in Nat
      /\ Secret[x] \in Nat /\ Secret[x] # 0
      /\ row \in Rows /\ row.current \in Nat /\ row.previous \in Nat /\ now \in Nat
  BY SettingFacts, SettingStays DEF TypeOK, Rows
<1>2. \A y \in Procs : y # x => at'[y] = at[y] /\ loc'[y] = loc[y]
  BY StepOthers
<1>3. \A y \in Procs : ReadAt(y)'
  <2>1. ASSUME NEW y \in Procs, y # x PROVE ReadAt(y)'
    BY <1>1, <1>2, <2>1 DEF ReadAt, RefreshInv
  <2> QED
    BY <2>1, ReadOwn
<1>4. ended # Never => ended' # Never
  BY <1>1, StepEnds DEF Never
<1>5. CASE Exchanges(x)
  <2>1. \A y \in Procs : loc[y].goal = "rotated" => row.current > Secret[y]
    BY <1>5 DEF RefreshInv, WonAt, Exchanges
  <2>2. row'.current = row.current + 1 /\ Issued'
    BY <1>5 DEF Exchanges, Issued, NoRow
  <2>3. ASSUME NEW y \in Procs PROVE WonAt(y)'
    BY <1>1, <1>2, <1>5, <2>1, <2>2 DEF WonAt, Exchanges
  <2>4. row'.previous # 0 => row'.current = row'.previous + 1
    BY <1>5 DEF Exchanges, RefreshInv, ReadAt
  <2>5. ASSUME NEW y \in Procs, y # x, loc[y].goal = "rotated" PROVE Secret[y] # Secret[x]
    BY <1>1, <1>5, <2>1, <2>5 DEF Exchanges
  <2>6. SingleWinner'
    BY <1>1, <1>2, <2>5 DEF SingleWinner, RefreshInv
  <2> QED
    BY <1>3, <2>3, <2>4, <2>6 DEF RefreshInv
<1>6. CASE SecretsStay /\ (loc'[x].goal = "rotated" => loc[x].goal = "rotated")
  <2>1. Issued => Issued'
    BY <1>4, <1>6 DEF SecretsStay, Issued, NoRow
  <2>2. ASSUME NEW y \in Procs PROVE WonAt(y)'
    <3>1. WonAt(y) /\ (loc'[y].goal = "rotated" => loc[y].goal = "rotated")
      BY <1>2, <1>6 DEF RefreshInv
    <3> QED
      BY <1>1, <1>6, <2>1, <3>1 DEF WonAt, SecretsStay
  <2>3. SingleWinner'
    BY <1>1, <1>2, <1>6 DEF SingleWinner, RefreshInv
  <2> QED
    BY <1>3, <1>6, <2>2, <2>3 DEF RefreshInv, SecretsStay
<1>7. CASE ~Issued /\ row' = NewRow /\ loc'[x].goal # "rotated"
  <2>1. \A y \in Procs : loc[y].goal # "rotated" /\ loc'[y].goal # "rotated"
    BY <1>2, <1>7 DEF RefreshInv, WonAt
  <2> QED
    BY <1>3, <1>7, <2>1 DEF RefreshInv, WonAt, SingleWinner, NewRow
<1> QED
  BY <1>5, <1>6, <1>7, RowMoves

LEMMA RefreshNext == TypeOK /\ Bounded /\ RefreshInv /\ [Next]_vars => RefreshInv'
<1> SUFFICES ASSUME TypeOK, Bounded, RefreshInv, [Next]_vars PROVE RefreshInv'
  OBVIOUS
<1>1. setting' = setting /\ Secret' = Secret
  BY SettingStays DEF Next, vars
<1>2. CASE Tick \/ UNCHANGED vars
  BY <1>1, <1>2 DEF Tick, vars, RefreshInv, ReadAt, WonAt, SingleWinner, Issued
<1>3. CASE DeleteOldSession
  <2>1. Issued' /\ row' = NoRow /\ at' = at /\ loc' = loc
    BY <1>3 DEF DeleteOldSession, Issued, Never, TypeOK
  <2> QED
    BY <1>1, <2>1 DEF RefreshInv, ReadAt, WonAt, SingleWinner, NoRow
<1> QED
  BY <1>1, <1>2, <1>3, RefreshStep DEF Next

\* A refresh secret is exchanged once, and who loses the race for it can follow
\* the winner, for any number of requests and generations of secrets
\* (RotateUserSessionRefresh): what a secret was exchanged for is behind the row
\* for good, and the secret before the current one is its predecessor.
THEOREM RefreshRaces == Spec => []RefreshRaceIsSafe
<1>1. Init => TypeOK /\ Bounded /\ RefreshInv
  <2>1. ASSUME Init PROVE RefreshInv
    <3>1. \A x \in Procs : at[x] = "start" /\ loc[x].goal = "failed"
      BY <2>1 DEF Init
    <3>2. row.previous = 0
      BY <2>1 DEF Init, NoRow, NewRow
    <3> QED
      BY <3>1, <3>2 DEF RefreshInv, ReadAt, WonAt, SingleWinner
  <2>2. Init => Bounded
    BY DEF Init, Bounded, NoEntry, Never
  <2> QED
    BY <2>1, <2>2, TypeInit
<1>2. TypeOK /\ Bounded /\ RefreshInv /\ [Next]_vars => (TypeOK /\ Bounded /\ RefreshInv)'
  BY TypeNext, BoundedNext, RefreshNext
<1>3. RefreshInv => RefreshRaceIsSafe
  BY DEF RefreshInv, RefreshRaceIsSafe, RacedGetsSuccessor, ReadAt
<1> QED
  BY <1>1, <1>2, <1>3, PTL DEF Spec

-----------------------------------------------------------------------------
(* A revoked session is refused, from the fence on or from the report on.  *)

Denying == entry.status \in {"revoking", "revoked"}

\* How long a denial lasts.
LEMMA DenialLasts ==
    ASSUME setting \in Settings, now \in Nat, now < Lifetime
    PROVE  DenyUntil >= Lifetime \/ DenyUntil >= now + TTL
  BY SettingFacts DEF DenyUntil, Least, Most

\* What a step does to the entry: nothing, a denial, or an active entry where
\* there is no denial.
Denies(x) ==
    /\ Denying' /\ entry'.until = DenyUntil
    /\ entry'.version = loc[x].seen.version
    /\ at[x] \in {"bury", "fence", "tombstone"}

Activates(x) ==
    /\ ~Denying /\ ~Denying'
    /\ entry'.version = 0 \/ entry'.version = loc[x].seen.version
    /\ at[x] = "send"

LEMMA EntryMoves ==
    ASSUME TypeOK, NEW x \in Procs, Step(x)
    PROVE  entry' = entry \/ Denies(x) \/ Activates(x)
<1>0. DenyUntil > now
  BY Denials DEF TypeOK
<1> USE DEF TypeOK, Denying
<1>1. CASE CreateUserSession(x) \/ ReadEntry(x) \/ FetchRow(x) \/ PrepareActive(x)
  BY <1>1 DEF CreateUserSession, ReadEntry, FetchRow, PrepareActive
<1>2. CASE Confirm(x) \/ RotateStarts(x) \/ RotateReads(x) \/ RotateSwaps(x)
  BY <1>2 DEF Confirm, RotateStarts, RotateReads, RotateSwaps
<1>3. CASE RevokeReads(x) \/ LogoutReads(x) \/ RevokeUpdates(x)
  BY <1>3 DEF RevokeReads, LogoutReads, RevokeUpdates
<1>4. CASE AdvanceUserSession(x) \/ Crash(x)
  BY <1>4 DEF AdvanceUserSession, Crash
<1>5. CASE Bury(x)
  BY <1>0, <1>5 DEF Bury, Stored, Denies
<1>6. CASE WriteDenyFence(x)
  BY <1>0, <1>6 DEF WriteDenyFence, Fence, Stored, Denies
<1>7. CASE WriteTombstone(x)
  BY <1>0, <1>7 DEF WriteTombstone, Tombstone, Stored, Denies
<1>8. CASE SendActive(x)
  BY <1>8 DEF SendActive, AcceptsActive, Stored, NoEntry, Activates
<1> QED
  BY <1>1, <1>2, <1>3, <1>4, <1>5, <1>6, <1>7, <1>8 DEF Step

\* The steps of a revocation, in their order: the fence, the row, the tombstone
\* and the report.
LEMMA RevocationMoves ==
    ASSUME TypeOK, NEW x \in Procs, Step(x)
    PROVE  /\ at'[x] = "update" => at[x] = "fence" /\ Denies(x) /\ ended' = ended
           /\ at'[x] = "tombstone" => ended' = now
           /\ ended' # ended => at[x] = "update" /\ ended' = now /\ entry' = entry
           /\ acked' # acked => /\ at[x] = "tombstone" /\ acked' = TRUE
                                /\ ended' = ended
                                /\ Tombstone(x) \/ budget.redis > 0
           /\ row'.status = "revoked" => row.status = "revoked" \/ ended' = now
           /\ budget'.redis <= budget.redis
<1>0. /\ DenyUntil > now /\ loc[x] \in Locals
      /\ budget.redis \in Nat /\ budget.crash \in Nat
  BY Denials DEF TypeOK
<1> USE DEF TypeOK, Go
<1>1. CASE CreateUserSession(x)
  BY <1>0, <1>1 DEF CreateUserSession, NewRow
<1>2. CASE ReadEntry(x)
  BY <1>0, <1>2 DEF ReadEntry, AfterRead, Spend
<1>3. CASE FetchRow(x) \/ PrepareActive(x)
  BY <1>0, <1>3 DEF FetchRow, PrepareActive
<1>4. CASE SendActive(x) \/ Confirm(x)
  BY <1>0, <1>4 DEF SendActive, Confirm, Spend, Locals
<1>5. CASE RotateStarts(x) \/ RotateReads(x)
  BY <1>0, <1>5 DEF RotateStarts, RotateReads
<1>12. CASE RotateSwaps(x)
  <2>1. row'.status = row.status
    BY <1>12 DEF RotateSwaps, Rows
  <2> QED
    BY <1>0, <1>12, <2>1 DEF RotateSwaps
<1>6. CASE RevokeReads(x) \/ LogoutReads(x)
  BY <1>0, <1>6 DEF RevokeReads, LogoutReads
<1>7. CASE WriteDenyFence(x)
  BY <1>0, <1>7 DEF WriteDenyFence, Fence, Stored, Denies, Denying, Spend
<1>8. CASE RevokeUpdates(x)
  BY <1>0, <1>8 DEF RevokeUpdates
<1>9. CASE WriteTombstone(x)
  <2>1. /\ at[x] = "tombstone" /\ at'[x] \in {"again", "revoked"}
        /\ acked' = TRUE /\ ended' = ended /\ row' = row
    BY <1>9 DEF WriteTombstone
  <2>2. Tombstone(x) \/ budget.redis > 0
    BY <1>9, Zenon DEF WriteTombstone, Spend
  <2>3. budget'.redis <= budget.redis
    BY <1>0, <1>9 DEF WriteTombstone, Spend
  <2> QED
    BY <2>1, <2>2, <2>3
<1>10. CASE AdvanceUserSession(x)
  <2>1. row'.status = row.status
    BY <1>10 DEF AdvanceUserSession, Rows
  <2> QED
    BY <1>0, <1>10, <2>1 DEF AdvanceUserSession
<1>11. CASE Bury(x) \/ Crash(x)
  BY <1>0, <1>11 DEF Bury, Crash, Spend
<1> QED
  BY <1>1, <1>2, <1>3, <1>4, <1>5, <1>6, <1>7, <1>8, <1>9, <1>10, <1>11,
     <1>12 DEF Step

\* The fence comes before the row: from then on, until the first denial can have
\* run out, the entry denies the session or the session has expired.
Lasting == entry.until > Horizon \/ entry.until >= Lifetime
Closing == ended # Never \/ \E x \in Procs : at[x] = "update"

FenceInv ==
    /\ row.status = "revoked" => ended # Never
    /\ \A x \in Procs : at[x] = "tombstone" => ended # Never
    /\ acked => ended # Never
    /\ Horizon < TTL /\ Closing => Lifetime <= now \/ (Denying /\ Lasting)

LEMMA FenceStep ==
    ASSUME TypeOK, Bounded, FenceInv, NEW x \in Procs, Step(x), setting' = setting
    PROVE  FenceInv'
<1>1. /\ setting \in Settings /\ now \in Nat /\ now # Never /\ ended \in Int
      /\ TTL \in Nat /\ Lifetime \in Nat /\ Horizon \in Nat
      /\ TTL' = TTL /\ Lifetime' = Lifetime /\ Horizon' = Horizon
      /\ entry.until \in Nat
  BY SettingFacts, SettingStays DEF TypeOK, Never
<1>2. now' = now /\ (ended' = ended \/ (ended = Never /\ ended' = now))
  BY StepEnds
<1>3. ended # Never => ended' # Never
  BY <1>1, <1>2
<1>4. /\ row'.status = "revoked" => ended' # Never
      /\ acked' => ended' # Never
      /\ at'[x] = "tombstone" => ended' # Never
  BY <1>1, <1>3, RevocationMoves DEF FenceInv
<1>5. \A y \in Procs : y # x => at'[y] = at[y]
  BY StepOthers
<1>6. \A y \in Procs : at'[y] = "tombstone" => ended' # Never
  BY <1>3, <1>4, <1>5 DEF FenceInv
<1>7. ASSUME Horizon < TTL, Closing', now < Lifetime
      PROVE  Denying' /\ Lasting'
  <2>1. CASE Denies(x)
    <3>1. DenyUntil \in Nat /\ (DenyUntil >= Lifetime \/ DenyUntil >= now + TTL)
      BY <1>1, <1>7, Denials, DenialLasts
    <3> QED
      BY <1>1, <1>7, <2>1, <3>1 DEF Denies, Lasting
  <2>2. CASE ~Denies(x)
    <3>1. Closing
      <4>1. CASE ended' # Never
        BY <1>2, <4>1, RevocationMoves DEF Closing
      <4>2. CASE \E y \in Procs : at'[y] = "update"
        <5>1. PICK y \in Procs : at'[y] = "update"
          BY <4>2
        <5>2. y # x
          BY <2>2, <5>1, RevocationMoves
        <5> QED
          BY <1>5, <5>1, <5>2 DEF Closing
      <4> QED
        BY <1>7, <4>1, <4>2 DEF Closing
    <3>2. Denying /\ Lasting
      BY <1>1, <1>7, <3>1 DEF FenceInv
    <3>3. entry' = entry
      BY <2>2, <3>2, EntryMoves DEF Activates
    <3> QED
      BY <1>1, <3>2, <3>3 DEF Denying, Lasting
  <2> QED
    BY <2>1, <2>2
<1>8. (Horizon < TTL /\ Closing => Lifetime <= now \/ (Denying /\ Lasting))'
  BY <1>1, <1>2, <1>7
<1> QED
  BY <1>4, <1>6, <1>8 DEF FenceInv

LEMMA FenceNext == TypeOK /\ Bounded /\ FenceInv /\ [Next]_vars => FenceInv'
<1> SUFFICES ASSUME TypeOK, Bounded, FenceInv, [Next]_vars PROVE FenceInv'
  OBVIOUS
<1>1. /\ setting' = setting /\ TTL' = TTL /\ Lifetime' = Lifetime /\ Horizon' = Horizon
      /\ TTL \in Nat /\ Lifetime \in Nat /\ Horizon \in Nat
      /\ entry.until \in Nat /\ now \in Nat /\ now # Never
  BY SettingFacts, SettingStays DEF Next, vars, TypeOK, Never
<1>2. CASE UNCHANGED vars
  BY <1>1, <1>2 DEF vars, FenceInv, Closing, Denying, Lasting
<1>3. CASE Tick
  <2>1. /\ row' = row /\ at' = at /\ acked' = acked /\ ended' = ended
        /\ now' = now + 1 /\ now < Horizon
        /\ entry' = entry \/ entry.until <= now + 1
    BY <1>3 DEF Tick
  <2>2. Closing' = Closing
    BY <2>1 DEF Closing
  <2>3. ASSUME Horizon < TTL, Closing, now' < Lifetime PROVE Denying' /\ Lasting'
    <3>1. Denying /\ Lasting
      BY <1>1, <2>1, <2>3 DEF FenceInv
    <3>2. entry' = entry
      BY <1>1, <2>1, <2>3, <3>1 DEF Lasting
    <3> QED
      BY <1>1, <3>1, <3>2 DEF Denying, Lasting
  <2> QED
    BY <1>1, <2>1, <2>2, <2>3 DEF FenceInv
<1>4. CASE DeleteOldSession
  <2>1. /\ row' = NoRow /\ at' = at /\ acked' = acked /\ ended' # Never
        /\ entry' = entry /\ now' = now
        /\ Lifetime < now \/ row.status = "revoked"
    BY <1>1, <1>4 DEF DeleteOldSession
  <2>2. Lifetime < now \/ Closing
    BY <2>1 DEF FenceInv, Closing
  <2> QED
    BY <1>1, <2>1, <2>2 DEF FenceInv, Denying, Lasting, NoRow
<1> QED
  BY <1>1, <1>2, <1>3, <1>4, FenceStep DEF Next

\* Without a move to another version, every copy of the row has the version it
\* was made with.
Revokes == {"fence", "update", "tombstone"}

LEMMA VersionMoves ==
    ASSUME TypeOK, NoAdvance, NEW x \in Procs, Step(x)
    PROVE  /\ row' = NewRow \/ (row'.version = row.version
                                /\ (row'.status = "active" => row.status = "active"))
           /\ loc'[x].seen \in {loc[x].seen, row, NewRow}
           /\ at'[x] \in Revokes =>
                 \/ at[x] \in Revokes /\ loc'[x].seen = loc[x].seen
                 \/ loc'[x].seen = row /\ row.status = "active"
<1>0. loc[x] \in Locals
  BY DEF TypeOK
<1> USE DEF TypeOK, Go, Revokes
<1>1. CASE CreateUserSession(x)
  BY <1>0, <1>1 DEF CreateUserSession, Locals
<1>2. CASE ReadEntry(x)
  BY <1>0, <1>2 DEF ReadEntry, AfterRead, Locals
<1>3. CASE FetchRow(x)
  BY <1>0, <1>3 DEF FetchRow, Locals
<1>4. CASE PrepareActive(x)
  BY <1>0, <1>4 DEF PrepareActive, Locals
<1>5. CASE SendActive(x) \/ Confirm(x)
  BY <1>0, <1>5 DEF SendActive, Confirm, Locals
<1>6. CASE RotateStarts(x)
  BY <1>0, <1>6 DEF RotateStarts, Locals
<1>7. CASE RotateReads(x)
  BY <1>0, <1>7 DEF RotateReads, Usable, Locals
<1>8. CASE RotateSwaps(x)
  <2>1. row'.version = row.version /\ row'.status = row.status
    BY <1>8 DEF RotateSwaps, Rows
  <2>2. loc'[x].seen = loc[x].seen /\ at'[x] \notin Revokes
    BY <1>0, <1>8 DEF RotateSwaps, Locals
  <2> QED
    BY <2>1, <2>2
<1>9. CASE RevokeReads(x)
  BY <1>0, <1>9 DEF RevokeReads, Usable, Locals
<1>10. CASE LogoutReads(x)
  BY <1>0, <1>10 DEF LogoutReads, Usable, Locals
<1>11. CASE WriteDenyFence(x) \/ WriteTombstone(x)
  BY <1>11 DEF WriteDenyFence, WriteTombstone
<1>12. CASE RevokeUpdates(x)
  BY <1>12 DEF RevokeUpdates, Rows
<1>13. CASE Bury(x) \/ Crash(x)
  BY <1>13 DEF Bury, Crash
<1>14. CASE AdvanceUserSession(x)
  BY <1>14 DEF AdvanceUserSession, NoAdvance
<1> QED
  BY <1>1, <1>2, <1>3, <1>4, <1>5, <1>6, <1>7, <1>8, <1>9, <1>10, <1>11,
     <1>12, <1>13, <1>14 DEF Step

VersionAt(x) ==
    /\ loc[x].seen.version <= 1
    /\ at[x] \in Revokes => loc[x].seen.version = 1

VersionInv ==
    /\ row.version <= 1 /\ entry.version <= 1
    /\ row.status = "active" => row.version = 1
    /\ \A x \in Procs : VersionAt(x)

LEMMA VersionStep ==
    ASSUME TypeOK, NoAdvance, VersionInv, NEW x \in Procs, Step(x)
    PROVE  VersionInv'
<1>1. \A y \in Procs : y # x => at'[y] = at[y] /\ loc'[y] = loc[y]
  BY StepOthers
<1>2. VersionAt(x)'
  BY VersionMoves DEF VersionAt, VersionInv, NewRow
<1>3. row'.version <= 1 /\ (row'.status = "active" => row'.version = 1)
  BY VersionMoves DEF VersionInv, NewRow
<1>4. entry'.version <= 1
  <2>1. entry' = entry \/ entry'.version \in {0, loc[x].seen.version}
    BY EntryMoves DEF Denies, Activates
  <2> QED
    BY <2>1 DEF VersionInv, VersionAt
<1> QED
  BY <1>1, <1>2, <1>3, <1>4 DEF VersionInv, VersionAt

\* When every command reaches Redis and the version stays, a revocation that was
\* reported has left a denial that lasts as long as any active entry can.
Quiet == RedisFaults = 0 /\ NoAdvance
Outlasting == entry.until >= Lifetime \/ entry.until >= ended + TTL

QuietInv ==
    Quiet =>
        /\ budget.redis = 0
        /\ VersionInv
        /\ acked => Lifetime <= now \/ ended + TTL <= now \/ (Denying /\ Outlasting)

LEMMA QuietStep ==
    ASSUME TypeOK, Bounded, FenceInv, QuietInv, NEW x \in Procs, Step(x),
           setting' = setting
    PROVE  QuietInv'
<1> SUFFICES ASSUME Quiet
             PROVE  /\ budget'.redis = 0 /\ VersionInv'
                    /\ (acked => Lifetime <= now \/ ended + TTL <= now
                                 \/ (Denying /\ Outlasting))'
  BY SettingStays DEF QuietInv, Quiet, NoAdvance
<1>1. /\ setting \in Settings /\ now \in Nat /\ now # Never /\ ended \in Int
      /\ TTL \in Nat /\ Lifetime \in Nat
      /\ TTL' = TTL /\ Lifetime' = Lifetime
      /\ entry.until \in Nat /\ entry.version \in Nat /\ entry'.until \in Nat
  BY SettingFacts, SettingStays, TypeStep DEF TypeOK, Never
<1>2. now' = now /\ (ended' = ended \/ (ended = Never /\ ended' = now))
  BY StepEnds
<1>3. budget.redis = 0 /\ budget'.redis = 0
  <2>1. budget.redis = 0 /\ budget'.redis \in Nat /\ budget'.redis <= budget.redis
    BY TypeStep, RevocationMoves DEF QuietInv, TypeOK
  <2> QED
    BY <2>1
<1>4. VersionInv /\ VersionInv'
  BY VersionStep DEF QuietInv, Quiet
<1>5. ASSUME acked', now < Lifetime, now < ended' + TTL PROVE Denying' /\ Outlasting'
  <2>0. ended # Never
    <3>1. acked \/ at[x] = "tombstone"
      BY <1>5, RevocationMoves DEF TypeOK
    <3> QED
      BY <3>1 DEF FenceInv
  <2>1. ended # Never /\ ended' = ended /\ ended <= now
    BY <1>1, <1>2, <2>0 DEF Bounded
  <2>2. ASSUME Denies(x) PROVE Denying' /\ Outlasting'
    <3>1. DenyUntil \in Nat /\ (DenyUntil >= Lifetime \/ DenyUntil >= now + TTL)
      BY <1>1, <1>5, Denials, DenialLasts
    <3> QED
      BY <1>1, <2>1, <2>2, <3>1 DEF Denies, Outlasting
  <2>3. CASE acked
    <3>1. Denying /\ Outlasting
      BY <1>1, <1>5, <2>1, <2>3 DEF QuietInv
    <3>2. entry' = entry \/ Denies(x)
      BY <3>1, EntryMoves DEF Activates
    <3> QED
      BY <1>1, <2>1, <2>2, <3>1, <3>2 DEF Denying, Outlasting
  <2>4. CASE ~acked
    <3>0. acked' # acked
      BY <1>5, <2>4
    <3>1. at[x] = "tombstone" /\ Tombstone(x)
      <4>1. at[x] = "tombstone" /\ (Tombstone(x) \/ budget.redis > 0)
        BY <3>0, RevocationMoves
      <4>2. ~(budget.redis > 0)
        BY <1>3
      <4> QED
        BY <4>1, <4>2, Zenon
    <3>2. entry.version <= loc[x].seen.version
      BY <1>1, <1>4, <3>1 DEF VersionInv, VersionAt, Revokes
    <3>3. entry' = Stored("revoked", loc[x].seen.version, DenyUntil)
      BY <3>1, <3>2 DEF Tombstone, AcceptsDenial
    <3>4. Denies(x)
      BY <1>1, <3>1, <3>3, Denials DEF Stored, Denies, Denying
    <3> QED
      BY <2>2, <3>4
  <2> QED
    BY <2>3, <2>4
<1> QED
  BY <1>1, <1>2, <1>3, <1>4, <1>5, TypeStep DEF TypeOK

LEMMA QuietNext == TypeOK /\ Bounded /\ FenceInv /\ QuietInv /\ [Next]_vars => QuietInv'
<1> SUFFICES ASSUME TypeOK, Bounded, FenceInv, QuietInv, [Next]_vars PROVE QuietInv'
  OBVIOUS
<1>1. /\ setting' = setting /\ TTL' = TTL /\ Lifetime' = Lifetime /\ Quiet' = Quiet
      /\ TTL \in Nat /\ Lifetime \in Nat /\ now \in Nat /\ ended \in Int
      /\ entry.until \in Nat
  BY SettingFacts, SettingStays DEF Next, vars, TypeOK, Quiet, NoAdvance
<1>2. CASE UNCHANGED vars
  BY <1>1, <1>2 DEF vars, QuietInv, VersionInv, VersionAt, Denying, Outlasting
<1>3. CASE Tick
  <2>1. /\ row' = row /\ at' = at /\ acked' = acked /\ ended' = ended /\ loc' = loc
        /\ now' = now + 1 /\ budget' = budget
        /\ \/ entry' = entry
           \/ entry' = NoEntry /\ entry.until <= now + 1
    BY <1>3 DEF Tick
  <2>2. VersionInv => VersionInv'
    BY <2>1 DEF VersionInv, VersionAt, NoEntry
  <2>3. ASSUME Denying, Outlasting, now' < Lifetime, now' < ended + TTL
        PROVE  Denying' /\ Outlasting'
    BY <1>1, <2>1, <2>3 DEF Denying, Outlasting
  <2> QED
    BY <1>1, <2>1, <2>2, <2>3 DEF QuietInv
<1>4. CASE DeleteOldSession
  <2>1. /\ row' = NoRow /\ at' = at /\ acked' = acked /\ loc' = loc
        /\ ended # Never => ended' = ended
        /\ entry' = entry /\ now' = now /\ budget' = budget
    BY <1>4 DEF DeleteOldSession
  <2>2. VersionInv => VersionInv'
    BY <2>1 DEF VersionInv, VersionAt, NoRow
  <2>3. acked => ended' = ended
    BY <2>1 DEF FenceInv
  <2> QED
    BY <1>1, <2>1, <2>2, <2>3 DEF QuietInv, Denying, Outlasting
<1> QED
  BY <1>1, <1>2, <1>3, <1>4, QuietStep DEF Next

\* A request that starts after the row is revoked gets no new secret, and gets
\* nothing at all once there is a denial.
Refusing == {"fetch", "bury", "denied", "failed"}

RefusedAt(x) ==
    /\ loc[x].gone =>
          ended # Never /\ at[x] \in Refusing \cup {"refresh", "rotate", "valid"}
    /\ loc[x].late => loc[x].gone
    /\ (Horizon < TTL /\ loc[x].gone) \/ (Quiet /\ loc[x].late) =>
          at[x] \in Refusing

\* Only ReadEntry notes whether it comes too late; a request that does goes to
\* the row, and from there nowhere.
LEMMA FlagMoves ==
    ASSUME TypeOK, Bounded, NEW x \in Procs, Step(x), ~ReadEntry(x)
    PROVE  /\ loc'[x].gone = loc[x].gone /\ loc'[x].late = loc[x].late
           /\ ended # Never /\ at[x] \in Refusing => at'[x] \in Refusing
           /\ ended # Never /\ at[x] \in {"refresh", "rotate"} =>
                 at'[x] \in {"rotate", "denied", "failed"}
           /\ at[x] # "valid"
<1>0. /\ loc[x] \in Locals
      /\ ended # Never => row.status # "active"
  BY DEF TypeOK, Bounded
<1> USE DEF TypeOK, Go, Refusing
<1>1. CASE CreateUserSession(x)
  BY <1>0, <1>1 DEF CreateUserSession, Locals
<1>2. CASE FetchRow(x)
  BY <1>0, <1>2 DEF FetchRow, Usable, Locals
<1>3. CASE Bury(x)
  BY <1>0, <1>3 DEF Bury
<1>4. CASE PrepareActive(x)
  BY <1>0, <1>4 DEF PrepareActive, Locals
<1>5. CASE SendActive(x) \/ Confirm(x)
  BY <1>0, <1>5 DEF SendActive, Confirm
<1>6. CASE RotateStarts(x)
  BY <1>0, <1>6 DEF RotateStarts, Locals
<1>7. CASE RotateReads(x)
  BY <1>0, <1>7 DEF RotateReads, Usable, Locals
<1>8. CASE RotateSwaps(x)
  BY <1>0, <1>8 DEF RotateSwaps, Locals
<1>9. CASE RevokeReads(x)
  BY <1>0, <1>9 DEF RevokeReads, Locals
<1>10. CASE LogoutReads(x)
  BY <1>0, <1>10 DEF LogoutReads, Locals
<1>11. CASE WriteDenyFence(x) \/ RevokeUpdates(x) \/ WriteTombstone(x)
  BY <1>0, <1>11 DEF WriteDenyFence, RevokeUpdates, WriteTombstone
<1>12. CASE AdvanceUserSession(x)
  BY <1>0, <1>12 DEF AdvanceUserSession, Locals
<1>13. CASE Crash(x)
  BY <1>0, <1>13 DEF Crash, Ended
<1> QED
  BY <1>1, <1>2, <1>3, <1>4, <1>5, <1>6, <1>7, <1>8, <1>9, <1>10, <1>11,
     <1>12, <1>13 DEF Step

LEMMA RefusedOwn ==
    ASSUME TypeOK, Bounded, FenceInv, QuietInv, NEW x \in Procs, Step(x),
           RefusedAt(x), setting' = setting
    PROVE  RefusedAt(x)'
<1>1. /\ setting \in Settings /\ now \in Nat /\ now # Never /\ ended \in Int
      /\ TTL \in Nat /\ Lifetime \in Nat /\ Horizon \in Nat /\ entry.until \in Nat
      /\ TTL' = TTL /\ Horizon' = Horizon /\ Quiet' = Quiet
      /\ loc[x] \in Locals
  BY SettingFacts, SettingStays DEF TypeOK, Never, Quiet, NoAdvance
<1>2. ended # Never => ended' # Never
  BY <1>1, StepEnds
<1>3. CASE ReadEntry(x)
  <2>1. /\ ended' = ended
        /\ at'[x] \in {"fetch", "valid", "refresh", "denied"}
        /\ entry.status # "active" \/ Lifetime <= now => at'[x] \in Refusing
    BY <1>1, <1>3 DEF ReadEntry, AfterRead, Go, Refusing, TypeOK
  <2>2. loc'[x] = [loc[x] EXCEPT !.late = acked, !.gone = ended # Never,
                     !.old = ended # Never /\ ended + TTL <= now,
                     !.goal = AfterRead(x)]
    BY <1>3 DEF ReadEntry, TypeOK
  <2>3. loc'[x].gone = (ended # Never) /\ loc'[x].late = acked
    BY <1>1, <2>2 DEF Locals
  <2>4. acked => ended # Never
    BY DEF FenceInv
  <2>5. ASSUME Horizon < TTL, ended # Never PROVE at'[x] \in Refusing
    <3>1. Lifetime <= now \/ Denying
      BY <2>5 DEF FenceInv, Closing
    <3> QED
      BY <2>1, <3>1 DEF Denying
  <2>6. ASSUME Quiet, acked PROVE at'[x] \in Refusing
    <3>1. Lifetime <= now \/ ended + TTL <= now \/ Denying
      BY <2>6 DEF QuietInv
    <3>2. ended + TTL <= now => entry.status # "active"
      BY <1>1, <2>4, <2>6 DEF Bounded
    <3> QED
      BY <2>1, <3>1, <3>2 DEF Denying
  <2> QED
    BY <1>1, <2>1, <2>3, <2>4, <2>5, <2>6 DEF RefusedAt, Refusing
<1>4. CASE ~ReadEntry(x)
  <2>1. /\ loc'[x].gone = loc[x].gone /\ loc'[x].late = loc[x].late
        /\ ended # Never /\ at[x] \in Refusing => at'[x] \in Refusing
        /\ ended # Never /\ at[x] \in {"refresh", "rotate"} =>
              at'[x] \in {"rotate", "denied", "failed"}
        /\ at[x] # "valid"
    BY <1>4, FlagMoves
  <2> QED
    BY <1>1, <1>2, <2>1 DEF RefusedAt, Refusing
<1> QED
  BY <1>3, <1>4

RevocationInv == FenceInv /\ QuietInv /\ \A x \in Procs : RefusedAt(x)

LEMMA RevocationNext ==
    TypeOK /\ Bounded /\ RevocationInv /\ [Next]_vars => RevocationInv'
<1> SUFFICES ASSUME TypeOK, Bounded, RevocationInv, [Next]_vars PROVE RevocationInv'
  OBVIOUS
<1>1. /\ setting' = setting /\ TTL' = TTL /\ Horizon' = Horizon /\ Quiet' = Quiet
      /\ now \in Nat /\ now # Never
  BY SettingStays DEF Next, vars, TypeOK, Never, Quiet, NoAdvance
<1>2. FenceInv' /\ QuietInv'
  BY FenceNext, QuietNext DEF RevocationInv
<1>3. ASSUME NEW y \in Procs PROVE RefusedAt(y)'
  <2>0. RefusedAt(y)
    BY DEF RevocationInv
  <2>1. CASE Tick \/ DeleteOldSession \/ UNCHANGED vars
    <3>1. at' = at /\ loc' = loc /\ (ended # Never => ended' # Never)
      BY <2>1, <1>1 DEF Tick, DeleteOldSession, vars
    <3> QED
      BY <1>1, <2>0, <3>1 DEF RefusedAt
  <2>2. ASSUME NEW x \in Procs, Step(x), x # y PROVE RefusedAt(y)'
    <3>1. at'[y] = at[y] /\ loc'[y] = loc[y] /\ (ended # Never => ended' # Never)
      BY <1>1, <2>2, StepOthers, StepEnds
    <3> QED
      BY <1>1, <2>0, <3>1 DEF RefusedAt
  <2>3. CASE Step(y)
    BY <1>1, <2>0, <2>3, RefusedOwn DEF RevocationInv
  <2> QED
    BY <2>1, <2>2, <2>3 DEF Next
<1> QED
  BY <1>2, <1>3 DEF RevocationInv

\* A revoked session is refused, for every TTL, lifetime and number of requests:
\* once a revocation has been reported if every command reaches Redis and the
\* version stays; from the moment the row is revoked, whatever fails, until the
\* first denial can have run out; and always for a refresh.
THEOREM RevocationStands == Spec => []RevocationHolds
<1>1. Init => TypeOK /\ Bounded /\ RevocationInv
  <2>1. ASSUME Init PROVE RevocationInv
    <3>1. \A x \in Procs : /\ at[x] = "start" /\ loc[x].seen = NoRow
                           /\ ~loc[x].gone /\ ~loc[x].late
      BY <2>1 DEF Init
    <3>2. /\ row = NoRow \/ row = NewRow
          /\ entry = NoEntry /\ ended = Never /\ acked = FALSE
          /\ budget.redis = RedisFaults
      BY <2>1 DEF Init
    <3>3. VersionInv
      BY <3>1, <3>2 DEF VersionInv, VersionAt, NoRow, NewRow, NoEntry, Revokes
    <3>4. FenceInv
      BY <3>1, <3>2 DEF FenceInv, Closing, NoRow, NewRow
    <3>5. QuietInv
      BY <3>2, <3>3 DEF QuietInv, Quiet
    <3> QED
      BY <3>1, <3>4, <3>5 DEF RevocationInv, RefusedAt
  <2>2. Init => Bounded
    BY DEF Init, Bounded, NoEntry, Never
  <2> QED
    BY <2>1, <2>2, TypeInit
<1>2. TypeOK /\ Bounded /\ RevocationInv /\ [Next]_vars
         => (TypeOK /\ Bounded /\ RevocationInv)'
  BY TypeNext, BoundedNext, RevocationNext
<1>3. RevocationInv => RevocationHolds
  BY DEF RevocationInv, RefusedAt, RevocationHolds, RevokedIsDenied, DeniedAtOnce,
     RefreshNeedsLiveRow, Passed, Refusing, Quiet
<1> QED
  BY <1>1, <1>2, <1>3, PTL DEF Spec

-----------------------------------------------------------------------------
(* A login with a second factor.                                           *)

\* The types of LoginVerification that its proof needs.
Stages == {"start", "state", "factor", "codes", "claim", "reset", "count",
           "increment", "complete", "refused", "loggedin", "changed", "enrolled"}

VerifyTyped ==
    /\ terms \in LoginSettings
    /\ clock \in Nat /\ version \in Nat /\ counted \in Nat
    /\ factor \in [id : Nat, on : BOOLEAN, failed : Nat, locked : Nat]
    /\ flows \in [Flows -> [version : Nat, until : Nat, used : BOOLEAN]]
    /\ sessions \subseteq [by : Logins, version : Nat, user : Nat]
    /\ place \in [Logins -> Stages]
    /\ seen \in [Logins -> [id : Nat, failed : Nat, locked : Nat, version : Nat,
                            when : Nat]]
    /\ passed \subseteq Logins

\* A session has used up its flow, and it came by a code that was accepted.
SessionsInv ==
    /\ \A s \in sessions : flows[FlowOf[s.by]].used /\ flows[FlowOf[s.by]].version > 0
    /\ \A x \in Logins : place[x] \in {"reset", "complete"} => x \in passed
    /\ Verify!OneSessionPerFlow /\ Verify!LoginIsCurrent

\* A backup code that is still there has admitted nobody.
CodesInv ==
    /\ 1 \in codes => \A x \in passed : Verify!Does[x] # "backup"
    /\ Verify!CodeAdmitsOnce

\* The counter is what was counted, and what a request has read of the lock
\* agrees with what it has read of the counter.
FailuresInv ==
    /\ Verify!NoFailureLost
    /\ ~factor.on => factor.failed = 0
    /\ \A x \in Logins : place[x] = "increment" =>
          (seen[x].locked > 0 => seen[x].failed >= Verify!MaxAttempts)

LEMMA LimitsTyped ==
    ASSUME terms \in LoginSettings
    PROVE  Verify!MaxAttempts \in Nat /\ Verify!FlowTTL \in Nat /\ Lockout \in Nat
           /\ \A x \in Logins : FlowOf[x] \in Flows
  BY LoginAssumption DEF Verify!MaxAttempts, Verify!FlowTTL

LEMMA VerifyTypedStep ==
    ASSUME VerifyTyped, NEW x \in Logins, Verify!Step(x), terms' = terms
    PROVE  VerifyTyped'
<1>0. /\ Verify!MaxAttempts \in Nat /\ Verify!FlowTTL \in Nat /\ Lockout \in Nat
      /\ FlowOf[x] \in Flows
  BY LimitsTyped DEF VerifyTyped
<1> DEFINE Factors == [id : Nat, on : BOOLEAN, failed : Nat, locked : Nat]
<1> DEFINE Reads == [id : Nat, failed : Nat, locked : Nat, version : Nat, when : Nat]
<1>12. /\ seen[x] \in Reads
       /\ seen[x].failed \in Nat /\ seen[x].when \in Nat
       /\ seen[x].locked \in Nat /\ seen[x].version \in Nat
  BY DEF VerifyTyped
<1>13. ASSUME NEW n \in Nat, NEW b \in BOOLEAN, NEW m \in Nat
       PROVE  /\ [factor EXCEPT !.failed = n, !.locked = m] \in Factors
              /\ [factor EXCEPT !.on = b, !.failed = n, !.locked = m] \in Factors
  BY DEF VerifyTyped
<1> USE DEF VerifyTyped, Verify!Go, Stages
<1>1. CASE Verify!ReadFlow(x)
  BY <1>0, <1>1 DEF Verify!ReadFlow
<1>2. CASE Verify!ReadState(x)
  BY <1>0, <1>2 DEF Verify!ReadState
<1>3. CASE Verify!ReadFactor(x)
  BY <1>0, <1>3 DEF Verify!ReadFactor
<1>4. CASE Verify!ReadCodes(x) \/ Verify!ClaimCode(x)
  BY <1>0, <1>4 DEF Verify!ReadCodes, Verify!ClaimCode
<1>5. CASE Verify!ResetFailures(x)
  <2>1. factor' \in Factors /\ counted' \in Nat
    <3>1. [factor EXCEPT !.failed = 0, !.locked = 0] \in Factors
      BY <1>13
    <3> QED
      BY <1>5, <3>1 DEF Verify!ResetFailures
  <2> QED
    BY <1>5, <2>1 DEF Verify!ResetFailures
<1>6. CASE Verify!ReadFailures(x)
  <2>1. [seen[x] EXCEPT !.failed = factor.failed, !.locked = factor.locked,
                        !.when = clock] \in Reads
    BY <1>12
  <2>2. seen' = [seen EXCEPT ![x] = [seen[x] EXCEPT !.failed = factor.failed,
                                     !.locked = factor.locked, !.when = clock]]
    BY <1>6 DEF Verify!ReadFailures
  <2>3. seen' \in [Logins -> Reads]
    BY <2>1, <2>2
  <2>4. place' \in [Logins -> Stages]
    BY <1>6 DEF Verify!ReadFailures
  <2> QED
    BY <1>6, <2>3, <2>4 DEF Verify!ReadFailures
<1>7. CASE Verify!CountFailure(x)
  <2>1. factor' \in Factors /\ counted' \in Nat
    <3>1. /\ seen[x].failed + 1 \in Nat /\ seen[x].when + Lockout \in Nat
          /\ seen[x].locked \in Nat
      BY <1>0, <1>12
    <3> DEFINE lock == IF seen[x].failed + 1 >= Verify!MaxAttempts
                       THEN seen[x].when + Lockout ELSE seen[x].locked
    <3>2. lock \in Nat
      BY <3>1
    <3>3. [factor EXCEPT !.failed = seen[x].failed + 1, !.locked = lock] \in Factors
      BY <1>13, <3>1, <3>2
    <3>4. \/ factor' = factor /\ counted' = counted
          \/ /\ factor' = [factor EXCEPT !.failed = seen[x].failed + 1, !.locked = lock]
             /\ counted' = counted + 1
      BY <1>7 DEF Verify!CountFailure
    <3>5. counted' \in Nat
      BY <3>4
    <3>6. factor' \in Factors
      BY <3>3, <3>4, Zenon
    <3> QED
      BY <3>5, <3>6
  <2>2. place' \in [Logins -> Stages]
    BY <1>7 DEF Verify!CountFailure
  <2> QED
    BY <1>7, <2>1, <2>2 DEF Verify!CountFailure
<1>8. CASE Verify!CompleteLogin(x)
  <2>0. \/ flows' = flows
        \/ flows' = [flows EXCEPT ![FlowOf[x]] = [flows[FlowOf[x]] EXCEPT !.used = TRUE]]
    BY <1>8 DEF Verify!CompleteLogin
  <2>1. flows' \in [Flows -> [version : Nat, until : Nat, used : BOOLEAN]]
    <3> DEFINE Records == [version : Nat, until : Nat, used : BOOLEAN]
    <3>1. flows \in [Flows -> Records] /\ flows[FlowOf[x]] \in Records
      BY <1>0
    <3>2. [flows[FlowOf[x]] EXCEPT !.used = TRUE] \in Records
      BY <3>1
    <3> HIDE DEF Records
    <3>3. flows' \in [Flows -> Records]
      BY <1>0, <2>0, <3>1, <3>2
    <3> QED
      BY <3>3 DEF Records
  <2>2. [by |-> x, version |-> seen[x].version, user |-> version]
           \in [by : Logins, version : Nat, user : Nat]
    BY <1>12
  <2>3. sessions' \subseteq [by : Logins, version : Nat, user : Nat]
    BY <1>8, <2>2 DEF Verify!CompleteLogin
  <2>4. place' \in [Logins -> Stages]
    BY <1>8 DEF Verify!CompleteLogin
  <2> QED
    BY <1>8, <2>1, <2>3, <2>4 DEF Verify!CompleteLogin
<1>9. CASE Verify!ReplaceCodes(x) \/ Verify!DisableTwoFA(x)
  <2>1. factor' \in Factors
    <3>1. [factor EXCEPT !.on = FALSE, !.failed = 0, !.locked = 0] \in Factors
      BY <1>13
    <3> QED
      BY <1>9, <3>1 DEF Verify!ReplaceCodes, Verify!DisableTwoFA
  <2> QED
    BY <1>9, <2>1 DEF Verify!ReplaceCodes, Verify!DisableTwoFA
<1>10. CASE Verify!EnrollTwoFA(x)
  BY <1>0, <1>10 DEF Verify!EnrollTwoFA
<1>11. CASE Verify!EnableTwoFA(x)
  <2>1. factor' \in Factors
    <3>1. [factor EXCEPT !.on = TRUE, !.failed = 0, !.locked = 0] \in Factors
      BY <1>13
    <3> QED
      BY <1>11, <3>1 DEF Verify!EnableTwoFA
  <2> QED
    BY <1>11, <2>1 DEF Verify!EnableTwoFA
<1> QED
  BY <1>1, <1>2, <1>3, <1>4, <1>5, <1>6, <1>7, <1>8, <1>9, <1>10, <1>11
     DEF Verify!Step

\* A step of one request leaves what the others have read and where they are.
LEMMA VerifyOthers ==
    ASSUME VerifyTyped, NEW x \in Logins, Verify!Step(x), NEW y \in Logins, y # x
    PROVE  place'[y] = place[y] /\ seen'[y] = seen[y]
<1> USE DEF VerifyTyped, Verify!Go
<1>1. CASE Verify!ReadFlow(x) \/ Verify!ReadState(x) \/ Verify!ReadFactor(x)
  BY <1>1 DEF Verify!ReadFlow, Verify!ReadState, Verify!ReadFactor
<1>2. CASE Verify!ReadCodes(x) \/ Verify!ClaimCode(x) \/ Verify!ResetFailures(x)
  BY <1>2 DEF Verify!ReadCodes, Verify!ClaimCode, Verify!ResetFailures
<1>3. CASE Verify!ReadFailures(x) \/ Verify!CountFailure(x)
  BY <1>3 DEF Verify!ReadFailures, Verify!CountFailure
<1>4. CASE Verify!CompleteLogin(x) \/ Verify!ReplaceCodes(x) \/ Verify!DisableTwoFA(x)
  BY <1>4 DEF Verify!CompleteLogin, Verify!ReplaceCodes, Verify!DisableTwoFA
<1>5. CASE Verify!EnrollTwoFA(x) \/ Verify!EnableTwoFA(x)
  BY <1>5 DEF Verify!EnrollTwoFA, Verify!EnableTwoFA
<1> QED
  BY <1>1, <1>2, <1>3, <1>4, <1>5 DEF Verify!Step

\* Who passes: a request with a right code of the authenticator, or the first
\* that marks the backup code.
LEMMA PassedMoves ==
    ASSUME VerifyTyped, NEW x \in Logins, Verify!Step(x)
    PROVE  /\ \/ passed' = passed /\ (1 \in codes' => 1 \in codes)
              \/ /\ passed' = passed \cup {x} /\ Verify!Does[x] = "totp"
                 /\ codes' = codes
              \/ /\ passed' = passed \cup {x} /\ 1 \in codes /\ 1 \notin codes'
           /\ place'[x] \in {"reset", "complete"} =>
                 x \in passed' \/ place[x] \in {"reset", "complete"}
<1> USE DEF VerifyTyped, Verify!Go
<1>1. CASE Verify!ReadFlow(x) \/ Verify!ReadState(x) \/ Verify!ReadFactor(x)
  BY <1>1 DEF Verify!ReadFlow, Verify!ReadState, Verify!ReadFactor
<1>2. CASE Verify!ReadCodes(x) \/ Verify!ClaimCode(x) \/ Verify!ResetFailures(x)
  BY <1>2 DEF Verify!ReadCodes, Verify!ClaimCode, Verify!ResetFailures,
     Verify!Claimable
<1>3. CASE Verify!ReadFailures(x) \/ Verify!CountFailure(x)
  BY <1>3 DEF Verify!ReadFailures, Verify!CountFailure
<1>4. CASE Verify!CompleteLogin(x) \/ Verify!ReplaceCodes(x) \/ Verify!DisableTwoFA(x)
  BY <1>4 DEF Verify!CompleteLogin, Verify!ReplaceCodes, Verify!DisableTwoFA
<1>5. CASE Verify!EnrollTwoFA(x) \/ Verify!EnableTwoFA(x)
  BY <1>5 DEF Verify!EnrollTwoFA, Verify!EnableTwoFA
<1> QED
  BY <1>1, <1>2, <1>3, <1>4, <1>5 DEF Verify!Step

LEMMA CodesStep ==
    ASSUME VerifyTyped, CodesInv, NEW x \in Logins, Verify!Step(x), terms' = terms
    PROVE  CodesInv'
<1>1. Verify!Does' = Verify!Does
  BY DEF Verify!Does
<1> QED
  BY <1>1, PassedMoves DEF CodesInv, Verify!CodeAdmitsOnce

\* A session is made by CompleteLogin alone, which uses up the flow.
LEMMA SessionMoves ==
    ASSUME VerifyTyped, NEW x \in Logins, Verify!Step(x)
    PROVE  \/ sessions' = sessions /\ flows' = flows
           \/ /\ Verify!Allowed(x) /\ place[x] = "complete"
              /\ flows' = [flows EXCEPT ![FlowOf[x]].used = TRUE]
              /\ sessions' = sessions \cup
                    {[by |-> x, version |-> seen[x].version, user |-> version]}
<1>1. CASE Verify!ReadFlow(x) \/ Verify!ReadState(x) \/ Verify!ReadFactor(x)
  BY <1>1 DEF Verify!ReadFlow, Verify!ReadState, Verify!ReadFactor
<1>2. CASE Verify!ReadCodes(x) \/ Verify!ClaimCode(x) \/ Verify!ResetFailures(x)
  BY <1>2 DEF Verify!ReadCodes, Verify!ClaimCode, Verify!ResetFailures
<1>3. CASE Verify!ReadFailures(x) \/ Verify!CountFailure(x)
  BY <1>3 DEF Verify!ReadFailures, Verify!CountFailure
<1>4. CASE Verify!ReplaceCodes(x) \/ Verify!DisableTwoFA(x)
  BY <1>4 DEF Verify!ReplaceCodes, Verify!DisableTwoFA
<1>5. CASE Verify!EnrollTwoFA(x) \/ Verify!EnableTwoFA(x)
  BY <1>5 DEF Verify!EnrollTwoFA, Verify!EnableTwoFA
<1>6. CASE Verify!CompleteLogin(x)
  BY <1>6 DEF Verify!CompleteLogin
<1> QED
  BY <1>1, <1>2, <1>3, <1>4, <1>5, <1>6 DEF Verify!Step

LEMMA SessionsStep ==
    ASSUME VerifyTyped, SessionsInv, NEW x \in Logins, Verify!Step(x), terms' = terms
    PROVE  SessionsInv'
<1>1. \A y \in Logins : y # x => place'[y] = place[y]
  BY VerifyOthers
<1>2. passed \subseteq passed'
  BY PassedMoves
<1>3. \A y \in Logins : place'[y] \in {"reset", "complete"} => y \in passed'
  BY <1>1, <1>2, PassedMoves DEF SessionsInv
<1>4. CASE sessions' = sessions /\ flows' = flows
  BY <1>2, <1>3, <1>4 DEF SessionsInv, Verify!OneSessionPerFlow, Verify!LoginIsCurrent
<1>5. CASE /\ Verify!Allowed(x) /\ place[x] = "complete"
           /\ flows' = [flows EXCEPT ![FlowOf[x]].used = TRUE]
           /\ sessions' = sessions \cup
                 {[by |-> x, version |-> seen[x].version, user |-> version]}
  <2> DEFINE new == [by |-> x, version |-> seen[x].version, user |-> version]
  <2>1. /\ ~flows[FlowOf[x]].used /\ flows[FlowOf[x]].version > 0
        /\ version = seen[x].version /\ x \in passed
    BY <1>5 DEF Verify!Allowed, Verify!Live, SessionsInv
  <2>2. /\ FlowOf[x] \in Flows /\ flows[FlowOf[x]].version \in Nat
        /\ \A s \in sessions : s.by \in Logins /\ FlowOf[s.by] \in Flows
    BY LimitsTyped DEF VerifyTyped
  <2>3. /\ new.by = x /\ new.version = new.user
        /\ \A s \in sessions : FlowOf[s.by] # FlowOf[x]
    BY <2>1, <2>2 DEF SessionsInv
  <2>4. \A f \in Flows : /\ flows'[f].version = flows[f].version
                         /\ flows[f].used \/ f = FlowOf[x] => flows'[f].used
    BY <1>5, <2>2 DEF VerifyTyped
  <2>5. \A s \in sessions' : flows'[FlowOf[s.by]].used /\ flows'[FlowOf[s.by]].version > 0
    BY <1>5, <2>1, <2>2, <2>3, <2>4 DEF SessionsInv
  <2>6. Verify!OneSessionPerFlow'
    BY <1>5, <2>3 DEF SessionsInv, Verify!OneSessionPerFlow
  <2>7. Verify!LoginIsCurrent'
    BY <1>2, <1>5, <2>1, <2>3 DEF SessionsInv, Verify!LoginIsCurrent
  <2> QED
    BY <1>3, <2>5, <2>6, <2>7 DEF SessionsInv
<1> QED
  BY <1>4, <1>5, SessionMoves

\* What a step does to the factor and to what the request knows of it.
LEMMA FailuresStep ==
    ASSUME VerifyTyped, FailuresInv, NEW x \in Logins, Verify!Step(x), terms' = terms
    PROVE  FailuresInv'
<1>0. /\ Verify!MaxAttempts \in Nat /\ Verify!MaxAttempts' = Verify!MaxAttempts
      /\ factor.failed \in Nat /\ factor.locked \in Nat /\ counted \in Nat
      /\ factor.on \in BOOLEAN /\ Lockout \in Nat
      /\ seen[x].failed \in Nat /\ seen[x].locked \in Nat /\ seen[x].when \in Nat
  BY LimitsTyped DEF VerifyTyped, Verify!MaxAttempts
<1>1. \A y \in Logins : y # x => place'[y] = place[y] /\ seen'[y] = seen[y]
  BY VerifyOthers
<1>2. ASSUME factor' = factor, counted' = counted, place'[x] # "increment"
      PROVE  FailuresInv'
  BY <1>0, <1>1, <1>2 DEF FailuresInv, Verify!NoFailureLost
<1>3. ASSUME factor'.failed = 0, factor'.locked = 0, counted' = 0,
             place'[x] # "increment"
      PROVE  FailuresInv'
  BY <1>0, <1>1, <1>3 DEF FailuresInv, Verify!NoFailureLost
<1> USE DEF VerifyTyped, Verify!Go
<1>4. CASE Verify!ReadFlow(x) \/ Verify!ReadState(x) \/ Verify!ReadFactor(x)
  BY <1>2, <1>4 DEF Verify!ReadFlow, Verify!ReadState, Verify!ReadFactor
<1>5. CASE Verify!ReadCodes(x) \/ Verify!ClaimCode(x)
  BY <1>2, <1>5 DEF Verify!ReadCodes, Verify!ClaimCode
<1>6. CASE Verify!CompleteLogin(x) \/ Verify!ReplaceCodes(x)
  BY <1>2, <1>6 DEF Verify!CompleteLogin, Verify!ReplaceCodes
<1>7. CASE Verify!ResetFailures(x)
  <2>1. place'[x] = "complete"
    BY <1>7 DEF Verify!ResetFailures
  <2>2. \/ factor' = [factor EXCEPT !.failed = 0, !.locked = 0] /\ counted' = 0
        \/ factor' = factor /\ counted' = counted
    BY <1>7 DEF Verify!ResetFailures
  <2> QED
    BY <1>2, <1>3, <2>1, <2>2
<1>8. CASE Verify!DisableTwoFA(x)
  BY <1>3, <1>8 DEF Verify!DisableTwoFA
<1>9. CASE Verify!EnrollTwoFA(x)
  <2>1. /\ ~factor.on /\ factor' = [factor EXCEPT !.id = @ + 1]
        /\ counted' = counted /\ place'[x] = "enrolled"
    BY <1>9 DEF Verify!EnrollTwoFA
  <2>2. factor'.failed = factor.failed /\ factor'.locked = factor.locked
        /\ factor.failed = 0 /\ counted' = 0
    BY <2>1 DEF FailuresInv, Verify!NoFailureLost
  <2> QED
    BY <1>0, <1>1, <2>1, <2>2 DEF FailuresInv, Verify!NoFailureLost
<1>10. CASE Verify!EnableTwoFA(x)
  <2>1. /\ place'[x] # "increment" /\ counted' = counted
        /\ \/ factor' = factor
           \/ /\ ~factor.on
              /\ factor' = [factor EXCEPT !.on = TRUE, !.failed = 0, !.locked = 0]
    BY <1>10 DEF Verify!EnableTwoFA
  <2>2. ~factor.on => counted = 0
    BY DEF FailuresInv, Verify!NoFailureLost
  <2> QED
    BY <1>2, <1>3, <2>1, <2>2
<1>11. CASE Verify!ReadFailures(x)
  <2>1. /\ seen'[x].failed = factor.failed /\ seen'[x].locked = factor.locked
        /\ factor' = factor /\ counted' = counted
    BY <1>11 DEF Verify!ReadFailures
  <2> QED
    BY <1>0, <1>1, <2>1 DEF FailuresInv, Verify!NoFailureLost
<1>12. CASE Verify!CountFailure(x)
  <2>1. CASE ~Verify!Unmoved(x)
    BY <1>2, <1>12, <2>1 DEF Verify!CountFailure
  <2>2. CASE Verify!Unmoved(x)
    <3> DEFINE lock == IF seen[x].failed + 1 >= Verify!MaxAttempts
                       THEN seen[x].when + Lockout ELSE seen[x].locked
    <3>1. /\ factor' = [factor EXCEPT !.failed = seen[x].failed + 1, !.locked = lock]
          /\ counted' = counted + 1 /\ place'[x] = "refused" /\ place[x] = "increment"
          /\ factor.on /\ factor.failed = seen[x].failed
      BY <1>12, <2>2 DEF Verify!CountFailure, Verify!Unmoved
    <3>2. factor'.failed = factor.failed + 1 /\ factor'.locked = lock
          /\ factor'.on = factor.on
      BY <3>1
    <3>3. lock > 0 => seen[x].failed + 1 >= Verify!MaxAttempts
      BY <1>0, <3>1 DEF FailuresInv
    <3>4. counted' = factor'.failed
      BY <1>0, <3>1, <3>2 DEF FailuresInv, Verify!NoFailureLost
    <3>5. factor'.locked > 0 => factor'.failed >= Verify!MaxAttempts
      BY <3>1, <3>2, <3>3
    <3>6. factor'.on
      BY <3>1, <3>2, Zenon
    <3> QED
      BY <1>0, <1>1, <3>1, <3>4, <3>5, <3>6 DEF FailuresInv, Verify!NoFailureLost
  <2> QED
    BY <2>1, <2>2
<1> QED
  BY <1>4, <1>5, <1>6, <1>7, <1>8, <1>9, <1>10, <1>11, <1>12 DEF Verify!Step

VerifyInv == VerifyTyped /\ SessionsInv /\ CodesInv /\ FailuresInv

\* The steps that are not a request's.
LEMMA FlowStarts ==
    ASSUME VerifyInv, NEW f \in Flows, Verify!StartFlow(f), terms' = terms
    PROVE  VerifyInv'
<1>0. /\ Verify!Does' = Verify!Does /\ Verify!MaxAttempts' = Verify!MaxAttempts
      /\ Verify!FlowTTL \in Nat
      /\ \A s \in sessions : FlowOf[s.by] \in Flows
  BY LimitsTyped DEF VerifyInv, VerifyTyped, Verify!Does, Verify!MaxAttempts
<1>1. /\ flows[f].version = 0
      /\ flows' = [flows EXCEPT ![f] = [version |-> version,
                       until |-> clock + Verify!FlowTTL, used |-> FALSE]]
      /\ UNCHANGED <<clock, version, factor, codes, sessions, place, seen, tries,
                     passed, counted>>
  BY DEF Verify!StartFlow
<1>2. VerifyTyped'
  BY <1>0, <1>1 DEF VerifyInv, VerifyTyped
<1>3. \A s \in sessions : FlowOf[s.by] # f
  BY <1>1 DEF VerifyInv, SessionsInv
<1>4. \A s \in sessions : flows'[FlowOf[s.by]] = flows[FlowOf[s.by]]
  BY <1>0, <1>1, <1>3 DEF VerifyInv, VerifyTyped
<1>5. SessionsInv'
  BY <1>1, <1>4 DEF VerifyInv, SessionsInv, Verify!OneSessionPerFlow,
     Verify!LoginIsCurrent
<1>6. CodesInv' /\ FailuresInv'
  BY <1>0, <1>1 DEF VerifyInv, CodesInv, FailuresInv, Verify!CodeAdmitsOnce,
     Verify!NoFailureLost
<1> QED
  BY <1>2, <1>5, <1>6 DEF VerifyInv

LEMMA VerifyStands ==
    ASSUME VerifyInv, terms' = terms,
           UNCHANGED <<version, factor, codes, flows, sessions, place, seen, passed,
                       counted>>,
           clock' \in Nat
    PROVE  VerifyInv'
<1>1. Verify!Does' = Verify!Does /\ Verify!MaxAttempts' = Verify!MaxAttempts
  BY DEF Verify!Does, Verify!MaxAttempts
<1> QED
  BY <1>1 DEF VerifyInv, VerifyTyped, SessionsInv, CodesInv, FailuresInv,
     Verify!OneSessionPerFlow, Verify!LoginIsCurrent, Verify!CodeAdmitsOnce,
     Verify!NoFailureLost

LEMMA VerifyNext == VerifyInv /\ [MCNext]_<<part, vars, verifyVars>> => VerifyInv'
<1> SUFFICES ASSUME VerifyInv, [MCNext]_<<part, vars, verifyVars>> PROVE VerifyInv'
  OBVIOUS
<1>1. CASE UNCHANGED verifyVars
  BY <1>1, VerifyStands DEF verifyVars, VerifyInv, VerifyTyped
<1>2. CASE Verify!Next
  <2>1. terms' = terms
    BY <1>2 DEF Verify!Next
  <2>2. CASE Verify!Tick
    BY <2>1, <2>2, VerifyStands DEF Verify!Tick, VerifyInv, VerifyTyped
  <2>3. ASSUME NEW x \in Logins, Verify!Step(x) PROVE VerifyInv'
    BY <2>1, <2>3, VerifyTypedStep, SessionsStep, CodesStep, FailuresStep DEF VerifyInv
  <2> QED
    BY <1>2, <2>1, <2>2, <2>3, FlowStarts DEF Verify!Next
<1> QED
  BY <1>1, <1>2 DEF MCNext

\* A flow gives one session, a backup code admits one request, a login begun
\* before the factor changed gets no session and no wrong code that is counted is
\* lost, for any number of requests and flows and every limit.
THEOREM SecondFactor == MCSpec => []SecondFactorHolds
<1>1. MCInit => VerifyInv
  <2> SUFFICES ASSUME MCInit PROVE VerifyInv
    OBVIOUS
  <2>0. Verify!Init
    BY DEF MCInit
  <2>1. VerifyTyped
    BY <2>0 DEF Verify!Init, Verify!Nothing, VerifyTyped, Stages
  <2>2. SessionsInv
    BY <2>0 DEF Verify!Init, SessionsInv, Verify!OneSessionPerFlow, Verify!LoginIsCurrent
  <2>3. CodesInv
    BY <2>0 DEF Verify!Init, CodesInv, Verify!CodeAdmitsOnce
  <2>4. FailuresInv
    BY <2>0 DEF Verify!Init, FailuresInv, Verify!NoFailureLost
  <2> QED
    BY <2>1, <2>2, <2>3, <2>4 DEF VerifyInv
<1>2. VerifyInv => SecondFactorHolds
  BY DEF VerifyInv, SessionsInv, CodesInv, FailuresInv, SecondFactorHolds
<1> QED
  BY <1>1, <1>2, VerifyNext, PTL DEF MCSpec

=============================================================================
