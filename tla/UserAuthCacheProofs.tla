------------------------ MODULE UserAuthCacheProofs ------------------------
(***************************************************************************)
(* What is proved of the caches of users and of tokens for every number of *)
(* requests, every TTL and every number of faults.  UserAuthCache: the     *)
(* types, nothing lasting in Redis runs ahead of the row, a reported       *)
(* change is seen by everybody who asks after it, a committed one while    *)
(* its fence lasts, and the group converges.  TokenCache: a reported       *)
(* change is seen, the hash is the token as some change left it, and uses  *)
(* stay within the grant.                                                  *)
(***************************************************************************)
EXTENDS MCCaches, FiniteSetTheorems, TLAPS

\* A transaction that is under way has read the row as it is, and nobody else
\* holds its lock.
Locked ==
    \A x \in Procs :
        at[x] \in {"fence", "commit"} =>
            holder = x /\ seen[x].version = user.version

\* What a request has read is a version the row has had.
Read ==
    \A x \in Procs :
        /\ seen[x].version <= user.version
        /\ at[x] \in {"promote", "invalidate"} => seen[x].version < user.version

\* Versions start at 1; 0 is what is not there.
Begun ==
    /\ user.version >= 1
    /\ hash = NoHash \/ hash.version >= 1
    /\ \A x \in Procs :
           at[x] \in {"floor", "check", "populate", "publish", "write", "verify"}
               => seen[x].version >= 1

\* A reported version is the floor's or the first, and the row has it.
Reported ==
    /\ acked <= user.version
    /\ acked <= Most(floor, 1)
    /\ \A x \in Procs : at[x] = "invalidate" => seen[x].version < floor

\* A reader that is past the floor, or past the row, has what was reported
\* when it started.
Fresh ==
    \A x \in Procs :
        /\ since[x].acked <= acked
        /\ at[x] \in {"check", "populate", "served"} =>
               seen[x].version >= since[x].acked

\* RefreshUserGroupCache gives up after its fourth write.
Tried ==
    \A x \in Procs :
        at[x] \in {"start", "refresh", "write", "verify"} => tries[x] <= 3

Safe == Locked /\ Read /\ NothingAhead /\ Begun /\ Reported /\ Fresh /\ Tried

\* The greater of two versions.
LEMMA MostIs ==
    ASSUME NEW a \in Nat, NEW b \in Nat
    PROVE  /\ Most(a, b) \in Nat
           /\ a <= Most(a, b) /\ b <= Most(a, b)
           /\ Most(a, b) = a \/ Most(a, b) = b
  BY DEF Most

\* What an accepted write publishes.
LEMMA PromoteIs ==
    ASSUME TypeOK, NEW v \in Nat, Promote(v)
    PROVE  /\ floor' = Most(floor, v)
           /\ floor' \in Nat
           /\ pending' \in [version : Nat, until : Nat]
  BY DEF Promote, TypeOK, Most, NoFence

\* A fault that is spent leaves the budget a budget.
LEMMA SpendType ==
    ASSUME NEW what \in {"redis", "db", "crash"},
           budget \in [redis : Nat, db : Nat, crash : Nat], Spend(what)
    PROVE  budget' \in [redis : Nat, db : Nat, crash : Nat]
  BY DEF Spend

\* Initially.
LEMMA InitSafe == Init => TypeOK /\ Safe
<1> SUFFICES ASSUME Init PROVE TypeOK /\ Safe
  OBVIOUS
<1>1. /\ setting \in Settings
      /\ setting.ttl \in Nat /\ setting.redis \in Nat /\ setting.db \in Nat
      /\ setting.crash \in Nat
  BY AuthAssumption DEF Init
<1>2. TypeOK
  BY <1>1 DEF Init, TypeOK, Places, Ended, NoHash, NoFence, CacheTTL
<1> QED
  BY <1>2 DEF Init, Safe, Locked, Read, NothingAhead, Begun, Reported, Fresh, Tried,
     NoHash, Most

\* The steps of a request keep the types.
LEMMA TypeStep ==
    ASSUME TypeOK, Tried, NEW x \in Procs, Step(x), UNCHANGED setting
    PROVE  TypeOK'
<1>0. /\ seen[x].version \in Nat /\ seen[x].version + 1 \in Nat
      /\ seen[x].group \in Nat /\ hash.version \in Nat /\ hash.group \in Nat
      /\ now + CacheTTL \in Nat /\ now + FenceTTL \in Nat
      /\ NoProc \notin Procs /\ setting' \in Settings
  BY AuthAssumption DEF TypeOK, CacheTTL, FenceTTL
<1>1. CASE ChangeLocks(x)
  BY <1>1, <1>0
     DEF ChangeLocks, Sees, Go, TypeOK, Tried, Places, Ended
<1>2. CASE ChangeFences(x)
  <2>1. now' \in Nat
    BY <1>2, <1>0
       DEF ChangeFences, TypeOK
  <2>2. user' \in [version : Nat, group : Nat, deleted : BOOLEAN]
    BY <1>2, <1>0
       DEF ChangeFences, TypeOK
  <2>3. hash' \in [version : Nat, group : Nat, until : Nat]
    BY <1>2, <1>0
       DEF ChangeFences, TypeOK, NoHash
  <2>4. pending' \in [version : Nat, until : Nat]
    BY <1>2, <1>0
       DEF ChangeFences, TypeOK, Fence, Raised
  <2>5. floor' \in Nat
    BY <1>2, <1>0
       DEF ChangeFences, TypeOK
  <2>6. holder' \in {y \in Procs : at'[y] \in {"fence", "commit"}} \cup {NoProc}
    BY <1>2, <1>0
       DEF ChangeFences, TypeOK, Go, Release
  <2>7. at' \in [Procs -> Places]
    BY <1>2, <1>0
       DEF ChangeFences, TypeOK, Go, Places, Ended
  <2>8. seen' \in [Procs -> [version : Nat, group : Nat]]
    BY <1>2, <1>0
       DEF ChangeFences, TypeOK
  <2>9. tries' \in [Procs -> 0 .. 4]
    BY <1>2, <1>0
       DEF ChangeFences, TypeOK, Tried
  <2>10. since' \in [Procs -> [committed : Nat, acked : Nat]]
    BY <1>2, <1>0
       DEF ChangeFences, TypeOK
  <2>11. acked' \in Nat
    BY <1>2, <1>0
       DEF ChangeFences, TypeOK, Most
  <2>12. budget' \in [redis : Nat, db : Nat, crash : Nat]
    BY <1>2, <1>0, SpendType
       DEF ChangeFences, TypeOK
  <2> QED
    BY <2>1, <2>2, <2>3, <2>4, <2>5, <2>6, <2>7, <2>8, <2>9, <2>10, <2>11,
        <2>12, <1>0 DEF TypeOK
<1>3. CASE ChangeCommits(x)
  <2>1. now' \in Nat
    BY <1>3, <1>0
       DEF ChangeCommits, TypeOK
  <2>0. PICK d \in BOOLEAN :
          \/ user' = user /\ at' = [at EXCEPT ![x] = "failed"]
          \/ user' = [user EXCEPT !.version = seen[x].version + 1,
                                  !.deleted = d]
    BY <1>3, Zenon DEF ChangeCommits, Go
  <2>2. user' \in [version : Nat, group : Nat, deleted : BOOLEAN]
    BY <1>0, <2>0
       DEF TypeOK
  <2>3. hash' \in [version : Nat, group : Nat, until : Nat]
    BY <1>3, <1>0
       DEF ChangeCommits, TypeOK, NoHash
  <2>4. pending' \in [version : Nat, until : Nat]
    BY <1>3, <1>0
       DEF ChangeCommits, TypeOK
  <2>5. floor' \in Nat
    BY <1>3, <1>0
       DEF ChangeCommits, TypeOK
  <2>6. holder' \in {y \in Procs : at'[y] \in {"fence", "commit"}} \cup {NoProc}
    BY <1>3, <1>0
       DEF ChangeCommits, TypeOK, Go, Release
  <2>7. at' \in [Procs -> Places]
    BY <1>3, <1>0
       DEF ChangeCommits, TypeOK, Go, Places, Ended
  <2>8. seen' \in [Procs -> [version : Nat, group : Nat]]
    BY <1>3, <1>0
       DEF ChangeCommits, TypeOK
  <2>9. tries' \in [Procs -> 0 .. 4]
    BY <1>3, <1>0
       DEF ChangeCommits, TypeOK, Tried
  <2>10. since' \in [Procs -> [committed : Nat, acked : Nat]]
    BY <1>3, <1>0
       DEF ChangeCommits, TypeOK
  <2>11. acked' \in Nat
    BY <1>3, <1>0
       DEF ChangeCommits, TypeOK, Most
  <2>12. budget' \in [redis : Nat, db : Nat, crash : Nat]
    BY <1>3, <1>0, SpendType
       DEF ChangeCommits, TypeOK
  <2> QED
    BY <2>1, <2>2, <2>3, <2>4, <2>5, <2>6, <2>7, <2>8, <2>9, <2>10, <2>11,
        <2>12, <1>0 DEF TypeOK
<1>4. CASE PublishReads(x)
  BY <1>4, <1>0
     DEF PublishReads, Sees, Go, TypeOK, Tried, Places, Ended
<1>5. CASE PublishWrites(x)
  <2>1. now' \in Nat
    BY <1>5, <1>0
       DEF PublishWrites, TypeOK
  <2>2. user' \in [version : Nat, group : Nat, deleted : BOOLEAN]
    BY <1>5, <1>0
       DEF PublishWrites, TypeOK
  <2>3. hash' \in [version : Nat, group : Nat, until : Nat]
    BY <1>5, <1>0
       DEF PublishWrites, TypeOK, NoHash
  <2>4. pending' \in [version : Nat, until : Nat]
    BY <1>5, <1>0, PromoteIs
       DEF PublishWrites, TypeOK
  <2>5. floor' \in Nat
    BY <1>5, <1>0, PromoteIs
       DEF PublishWrites, TypeOK
  <2>6. holder' \in {y \in Procs : at'[y] \in {"fence", "commit"}} \cup {NoProc}
    BY <1>5, <1>0
       DEF PublishWrites, TypeOK, Go, Release
  <2>7. at' \in [Procs -> Places]
    BY <1>5, <1>0
       DEF PublishWrites, TypeOK, Go, Places, Ended
  <2>8. seen' \in [Procs -> [version : Nat, group : Nat]]
    BY <1>5, <1>0
       DEF PublishWrites, TypeOK
  <2>9. tries' \in [Procs -> 0 .. 4]
    BY <1>5, <1>0
       DEF PublishWrites, TypeOK, Tried
  <2>10. since' \in [Procs -> [committed : Nat, acked : Nat]]
    BY <1>5, <1>0
       DEF PublishWrites, TypeOK
  <2>11. acked' \in Nat
    BY <1>5, <1>0
       DEF PublishWrites, TypeOK, Most
  <2>12. budget' \in [redis : Nat, db : Nat, crash : Nat]
    BY <1>5, <1>0, SpendType
       DEF PublishWrites, TypeOK
  <2> QED
    BY <2>1, <2>2, <2>3, <2>4, <2>5, <2>6, <2>7, <2>8, <2>9, <2>10, <2>11,
        <2>12, <1>0 DEF TypeOK
<1>6. CASE DeletePromotes(x)
  <2>1. now' \in Nat
    BY <1>6, <1>0
       DEF DeletePromotes, TypeOK
  <2>2. user' \in [version : Nat, group : Nat, deleted : BOOLEAN]
    BY <1>6, <1>0
       DEF DeletePromotes, TypeOK
  <2>3. hash' \in [version : Nat, group : Nat, until : Nat]
    BY <1>6, <1>0
       DEF DeletePromotes, TypeOK, NoHash
  <2>4. pending' \in [version : Nat, until : Nat]
    BY <1>6, <1>0, PromoteIs
       DEF DeletePromotes, TypeOK
  <2>5. floor' \in Nat
    BY <1>6, <1>0, PromoteIs
       DEF DeletePromotes, TypeOK
  <2>6. holder' \in {y \in Procs : at'[y] \in {"fence", "commit"}} \cup {NoProc}
    BY <1>6, <1>0
       DEF DeletePromotes, TypeOK, Go, Release
  <2>7. at' \in [Procs -> Places]
    BY <1>6, <1>0
       DEF DeletePromotes, TypeOK, Go, Places, Ended
  <2>8. seen' \in [Procs -> [version : Nat, group : Nat]]
    BY <1>6, <1>0
       DEF DeletePromotes, TypeOK
  <2>9. tries' \in [Procs -> 0 .. 4]
    BY <1>6, <1>0
       DEF DeletePromotes, TypeOK, Tried
  <2>10. since' \in [Procs -> [committed : Nat, acked : Nat]]
    BY <1>6, <1>0
       DEF DeletePromotes, TypeOK
  <2>11. acked' \in Nat
    BY <1>6, <1>0
       DEF DeletePromotes, TypeOK, Most
  <2>12. budget' \in [redis : Nat, db : Nat, crash : Nat]
    BY <1>6, <1>0, SpendType
       DEF DeletePromotes, TypeOK
  <2> QED
    BY <2>1, <2>2, <2>3, <2>4, <2>5, <2>6, <2>7, <2>8, <2>9, <2>10, <2>11,
        <2>12, <1>0 DEF TypeOK
<1>7. CASE DeleteInvalidates(x)
  <2>1. now' \in Nat
    BY <1>7, <1>0
       DEF DeleteInvalidates, TypeOK
  <2>2. user' \in [version : Nat, group : Nat, deleted : BOOLEAN]
    BY <1>7, <1>0
       DEF DeleteInvalidates, TypeOK
  <2>3. hash' \in [version : Nat, group : Nat, until : Nat]
    BY <1>7, <1>0
       DEF DeleteInvalidates, TypeOK, NoHash
  <2>4. pending' \in [version : Nat, until : Nat]
    BY <1>7, <1>0
       DEF DeleteInvalidates, TypeOK
  <2>5. floor' \in Nat
    BY <1>7, <1>0
       DEF DeleteInvalidates, TypeOK
  <2>6. holder' \in {y \in Procs : at'[y] \in {"fence", "commit"}} \cup {NoProc}
    BY <1>7, <1>0
       DEF DeleteInvalidates, TypeOK, Go, Release
  <2>7. at' \in [Procs -> Places]
    BY <1>7, <1>0
       DEF DeleteInvalidates, TypeOK, Go, Places, Ended
  <2>8. seen' \in [Procs -> [version : Nat, group : Nat]]
    BY <1>7, <1>0
       DEF DeleteInvalidates, TypeOK
  <2>9. tries' \in [Procs -> 0 .. 4]
    BY <1>7, <1>0
       DEF DeleteInvalidates, TypeOK, Tried
  <2>10. since' \in [Procs -> [committed : Nat, acked : Nat]]
    BY <1>7, <1>0
       DEF DeleteInvalidates, TypeOK
  <2>11. acked' \in Nat
    BY <1>7, <1>0
       DEF DeleteInvalidates, TypeOK, Most
  <2>12. budget' \in [redis : Nat, db : Nat, crash : Nat]
    BY <1>7, <1>0, SpendType
       DEF DeleteInvalidates, TypeOK
  <2> QED
    BY <2>1, <2>2, <2>3, <2>4, <2>5, <2>6, <2>7, <2>8, <2>9, <2>10, <2>11,
        <2>12, <1>0 DEF TypeOK
<1>8. CASE ReadHash(x)
  <2>1. now' \in Nat
    BY <1>8, <1>0
       DEF ReadHash, TypeOK
  <2>2. user' \in [version : Nat, group : Nat, deleted : BOOLEAN]
    BY <1>8, <1>0
       DEF ReadHash, TypeOK
  <2>3. hash' \in [version : Nat, group : Nat, until : Nat]
    BY <1>8, <1>0
       DEF ReadHash, TypeOK, NoHash
  <2>4. pending' \in [version : Nat, until : Nat]
    BY <1>8, <1>0
       DEF ReadHash, TypeOK
  <2>5. floor' \in Nat
    BY <1>8, <1>0
       DEF ReadHash, TypeOK
  <2>6. holder' \in {y \in Procs : at'[y] \in {"fence", "commit"}} \cup {NoProc}
    BY <1>8, <1>0
       DEF ReadHash, TypeOK, Go, Release
  <2>7. at' \in [Procs -> Places]
    BY <1>8, <1>0
       DEF ReadHash, TypeOK, Go, Places, Ended
  <2>8. seen' \in [Procs -> [version : Nat, group : Nat]]
    BY <1>8, <1>0
       DEF ReadHash, TypeOK
  <2>9. tries' \in [Procs -> 0 .. 4]
    BY <1>8, <1>0
       DEF ReadHash, TypeOK, Tried
  <2>10. since' \in [Procs -> [committed : Nat, acked : Nat]]
    BY <1>8, <1>0
       DEF ReadHash, TypeOK
  <2>11. acked' \in Nat
    BY <1>8, <1>0
       DEF ReadHash, TypeOK, Most
  <2>12. budget' \in [redis : Nat, db : Nat, crash : Nat]
    BY <1>8, <1>0, SpendType
       DEF ReadHash, TypeOK
  <2> QED
    BY <2>1, <2>2, <2>3, <2>4, <2>5, <2>6, <2>7, <2>8, <2>9, <2>10, <2>11,
        <2>12, <1>0 DEF TypeOK
<1>9. CASE ReadFloor(x)
  <2>1. now' \in Nat
    BY <1>9, <1>0
       DEF ReadFloor, TypeOK
  <2>2. user' \in [version : Nat, group : Nat, deleted : BOOLEAN]
    BY <1>9, <1>0
       DEF ReadFloor, TypeOK
  <2>3. hash' \in [version : Nat, group : Nat, until : Nat]
    BY <1>9, <1>0
       DEF ReadFloor, TypeOK, NoHash
  <2>4. pending' \in [version : Nat, until : Nat]
    BY <1>9, <1>0
       DEF ReadFloor, TypeOK
  <2>5. floor' \in Nat
    BY <1>9, <1>0
       DEF ReadFloor, TypeOK
  <2>6. holder' \in {y \in Procs : at'[y] \in {"fence", "commit"}} \cup {NoProc}
    BY <1>9, <1>0
       DEF ReadFloor, TypeOK, Go, Release
  <2>7. at' \in [Procs -> Places]
    BY <1>9, <1>0
       DEF ReadFloor, TypeOK, Go, Places, Ended
  <2>8. seen' \in [Procs -> [version : Nat, group : Nat]]
    BY <1>9, <1>0
       DEF ReadFloor, TypeOK
  <2>9. tries' \in [Procs -> 0 .. 4]
    BY <1>9, <1>0
       DEF ReadFloor, TypeOK, Tried
  <2>10. since' \in [Procs -> [committed : Nat, acked : Nat]]
    BY <1>9, <1>0
       DEF ReadFloor, TypeOK
  <2>11. acked' \in Nat
    BY <1>9, <1>0
       DEF ReadFloor, TypeOK, Most
  <2>12. budget' \in [redis : Nat, db : Nat, crash : Nat]
    BY <1>9, <1>0, SpendType
       DEF ReadFloor, TypeOK
  <2> QED
    BY <2>1, <2>2, <2>3, <2>4, <2>5, <2>6, <2>7, <2>8, <2>9, <2>10, <2>11,
        <2>12, <1>0 DEF TypeOK
<1>10. CASE ReadRow(x)
  BY <1>10, <1>0
     DEF ReadRow, Sees, Go, TypeOK, Tried, Places, Ended
<1>11. CASE CheckFloor(x)
  BY <1>11, <1>0
     DEF CheckFloor, Spend, Lowest, Most, Go, TypeOK, Tried, Places, Ended
<1>12. CASE Populate(x)
  <2>1. now' \in Nat
    BY <1>12, <1>0
       DEF Populate, TypeOK
  <2>2. user' \in [version : Nat, group : Nat, deleted : BOOLEAN]
    BY <1>12, <1>0
       DEF Populate, TypeOK
  <2>3. hash' \in [version : Nat, group : Nat, until : Nat]
    BY <1>12, <1>0
       DEF Populate, TypeOK, NoHash
  <2>4. pending' \in [version : Nat, until : Nat]
    BY <1>12, <1>0, PromoteIs
       DEF Populate, TypeOK
  <2>5. floor' \in Nat
    BY <1>12, <1>0, PromoteIs
       DEF Populate, TypeOK
  <2>6. holder' \in {y \in Procs : at'[y] \in {"fence", "commit"}} \cup {NoProc}
    BY <1>12, <1>0
       DEF Populate, TypeOK, Go, Release
  <2>7. at' \in [Procs -> Places]
    BY <1>12, <1>0
       DEF Populate, TypeOK, Go, Places, Ended
  <2>8. seen' \in [Procs -> [version : Nat, group : Nat]]
    BY <1>12, <1>0
       DEF Populate, TypeOK
  <2>9. tries' \in [Procs -> 0 .. 4]
    BY <1>12, <1>0
       DEF Populate, TypeOK, Tried
  <2>10. since' \in [Procs -> [committed : Nat, acked : Nat]]
    BY <1>12, <1>0
       DEF Populate, TypeOK
  <2>11. acked' \in Nat
    BY <1>12, <1>0
       DEF Populate, TypeOK, Most
  <2>12. budget' \in [redis : Nat, db : Nat, crash : Nat]
    BY <1>12, <1>0, SpendType
       DEF Populate, TypeOK
  <2> QED
    BY <2>1, <2>2, <2>3, <2>4, <2>5, <2>6, <2>7, <2>8, <2>9, <2>10, <2>11,
        <2>12, <1>0 DEF TypeOK
<1>13. CASE Regroup(x)
  BY <1>13, <1>0
     DEF Regroup, Go, TypeOK, Tried, Places, Ended
<1>14. CASE RefreshReads(x)
  BY <1>14, <1>0
     DEF RefreshReads, Sees, Go, TypeOK, Tried, Places, Ended
<1>15. CASE RefreshWrites(x)
  <2>1. now' \in Nat
    BY <1>15, <1>0
       DEF RefreshWrites, TypeOK
  <2>2. user' \in [version : Nat, group : Nat, deleted : BOOLEAN]
    BY <1>15, <1>0
       DEF RefreshWrites, TypeOK
  <2>3. hash' \in [version : Nat, group : Nat, until : Nat]
    BY <1>15, <1>0
       DEF RefreshWrites, TypeOK, NoHash
  <2>4. pending' \in [version : Nat, until : Nat]
    BY <1>15, <1>0, PromoteIs
       DEF RefreshWrites, TypeOK
  <2>5. floor' \in Nat
    BY <1>15, <1>0, PromoteIs
       DEF RefreshWrites, TypeOK
  <2>6. holder' \in {y \in Procs : at'[y] \in {"fence", "commit"}} \cup {NoProc}
    BY <1>15, <1>0
       DEF RefreshWrites, TypeOK, Go, Release
  <2>7. at' \in [Procs -> Places]
    BY <1>15, <1>0
       DEF RefreshWrites, TypeOK, Go, Places, Ended
  <2>8. seen' \in [Procs -> [version : Nat, group : Nat]]
    BY <1>15, <1>0
       DEF RefreshWrites, TypeOK
  <2>9. tries' \in [Procs -> 0 .. 4]
    BY <1>15, <1>0
       DEF RefreshWrites, TypeOK, Tried
  <2>10. since' \in [Procs -> [committed : Nat, acked : Nat]]
    BY <1>15, <1>0
       DEF RefreshWrites, TypeOK
  <2>11. acked' \in Nat
    BY <1>15, <1>0
       DEF RefreshWrites, TypeOK, Most
  <2>12. budget' \in [redis : Nat, db : Nat, crash : Nat]
    BY <1>15, <1>0, SpendType
       DEF RefreshWrites, TypeOK
  <2> QED
    BY <2>1, <2>2, <2>3, <2>4, <2>5, <2>6, <2>7, <2>8, <2>9, <2>10, <2>11,
        <2>12, <1>0 DEF TypeOK
<1>16. CASE RefreshVerifies(x)
  BY <1>16, <1>0
     DEF RefreshVerifies, Sees, Go, TypeOK, Tried, Places, Ended
<1>17. CASE Crash(x)
  BY <1>17, <1>0, SMTT(60)
     DEF Crash, Spend, Go, TypeOK, Tried, Places, Ended
<1> QED
  BY <1>1, <1>2, <1>3, <1>4, <1>5, <1>6, <1>7, <1>8, <1>9, <1>10, <1>11,
      <1>12, <1>13, <1>14, <1>15, <1>16, <1>17 DEF Step

\* And the strengthening.
LEMMA SafeStep ==
    ASSUME TypeOK, Safe, NEW x \in Procs, Step(x), TypeOK'
    PROVE  Safe'
<1>1. CASE ChangeLocks(x)
  <2>1. Locked'
    BY <1>1, AuthAssumption
       DEF ChangeLocks, Sees, Go, TypeOK, Safe, Locked
  <2>2. Read'
    BY <1>1
       DEF ChangeLocks, Sees, Go, TypeOK, Safe, Read, Locked
  <2>3. NothingAhead'
    BY <1>1
       DEF ChangeLocks, Sees, Go, TypeOK, Safe, NothingAhead, Read, Locked
  <2>4. Begun'
    BY <1>1
       DEF ChangeLocks, Sees, Go, TypeOK, Safe, Begun
  <2>5. Reported'
    BY <1>1
       DEF ChangeLocks, Sees, Go, TypeOK, Safe, Reported, Read, NothingAhead,
           Begun
  <2>6. Fresh'
    BY <1>1
       DEF ChangeLocks, Sees, Go, TypeOK, Safe, Fresh, Reported, Begun
  <2>7. Tried'
    BY <1>1
       DEF ChangeLocks, Sees, Go, TypeOK, Safe, Tried
  <2> QED
    BY <2>1, <2>2, <2>3, <2>4, <2>5, <2>6, <2>7 DEF Safe
<1>2. CASE ChangeFences(x)
  <2>1. Locked'
    BY <1>2
       DEF ChangeFences, Fence, Raised, Release, Go, TypeOK, Safe, Locked
  <2>2. Read'
    BY <1>2
       DEF ChangeFences, Fence, Raised, Release, Go, TypeOK, Safe, Read, Locked
  <2>3. NothingAhead'
    BY <1>2
       DEF ChangeFences, Fence, Raised, Release, Go, TypeOK, Safe,
           NothingAhead, Read, Locked
  <2>4. Begun'
    BY <1>2
       DEF ChangeFences, Fence, Raised, Release, Go, TypeOK, Safe, Begun
  <2>5. Reported'
    BY <1>2
       DEF ChangeFences, Fence, Raised, Release, Go, TypeOK, Safe, Reported,
           Read, NothingAhead, Begun
  <2>6. Fresh'
    BY <1>2
       DEF ChangeFences, Fence, Raised, Release, Go, TypeOK, Safe, Fresh,
           Reported, Begun
  <2>7. Tried'
    BY <1>2
       DEF ChangeFences, Fence, Raised, Release, Go, TypeOK, Safe, Tried
  <2> QED
    BY <2>1, <2>2, <2>3, <2>4, <2>5, <2>6, <2>7 DEF Safe
<1>3. CASE ChangeCommits(x)
  <2>0. PICK d \in BOOLEAN :
          \/ user' = user /\ at' = [at EXCEPT ![x] = "failed"]
          \/ user' = [user EXCEPT !.version = seen[x].version + 1,
                                  !.deleted = d]
    BY <1>3, Zenon DEF ChangeCommits, Go
  <2>8. seen[x].version = user.version
    BY <1>3 DEF ChangeCommits, Safe, Locked
  <2>9. \/ user'.version = user.version /\ at'[x] = "failed"
        \/ user'.version = user.version + 1
    BY <2>0, <2>8, ZenonT(60) DEF TypeOK
  <2>1. Locked'
    BY <1>3
       DEF ChangeCommits, Release, Go, TypeOK, Safe, Locked
  <2>2. Read'
    BY <1>3, <2>8, <2>9
       DEF ChangeCommits, Release, Go, TypeOK, Safe, Read, Locked
  <2>3. NothingAhead'
    BY <1>3, <2>8, <2>9
       DEF ChangeCommits, Release, Go, TypeOK, Safe, NothingAhead, Read, Locked
  <2>4. Begun'
    BY <1>3, <2>8, <2>9
       DEF ChangeCommits, Release, Go, TypeOK, Safe, Begun
  <2>5. Reported'
    BY <1>3, <2>8, <2>9
       DEF ChangeCommits, Release, Go, TypeOK, Safe, Reported, Read,
           NothingAhead, Begun
  <2>6. Fresh'
    BY <1>3, <2>8, <2>9
       DEF ChangeCommits, Release, Go, TypeOK, Safe, Fresh, Reported, Begun
  <2>7. Tried'
    BY <1>3, <2>8, <2>9
       DEF ChangeCommits, Release, Go, TypeOK, Safe, Tried
  <2> QED
    BY <2>1, <2>2, <2>3, <2>4, <2>5, <2>6, <2>7 DEF Safe
<1>4. CASE PublishReads(x)
  <2>1. Locked'
    BY <1>4
       DEF PublishReads, Sees, Go, TypeOK, Safe, Locked
  <2>2. Read'
    BY <1>4
       DEF PublishReads, Sees, Go, TypeOK, Safe, Read, Locked
  <2>3. NothingAhead'
    BY <1>4
       DEF PublishReads, Sees, Go, TypeOK, Safe, NothingAhead, Read, Locked
  <2>4. Begun'
    BY <1>4
       DEF PublishReads, Sees, Go, TypeOK, Safe, Begun
  <2>5. Reported'
    BY <1>4
       DEF PublishReads, Sees, Go, TypeOK, Safe, Reported, Read,
           NothingAhead, Begun
  <2>6. Fresh'
    BY <1>4
       DEF PublishReads, Sees, Go, TypeOK, Safe, Fresh, Reported, Begun
  <2>7. Tried'
    BY <1>4
       DEF PublishReads, Sees, Go, TypeOK, Safe, Tried
  <2> QED
    BY <2>1, <2>2, <2>3, <2>4, <2>5, <2>6, <2>7 DEF Safe
<1>5. CASE PublishWrites(x)
  <2>1. Locked'
    BY <1>5
       DEF PublishWrites, Promote, Most, Accepts, NoFence, NoHash, Go,
           TypeOK, Safe, Locked
  <2>2. Read'
    BY <1>5
       DEF PublishWrites, Promote, Most, Accepts, NoFence, NoHash, Go,
           TypeOK, Safe, Read, Locked
  <2>3. NothingAhead'
    BY <1>5
       DEF PublishWrites, Promote, Most, Accepts, NoFence, NoHash, Go,
           TypeOK, Safe, NothingAhead, Read, Locked
  <2>4. Begun'
    BY <1>5
       DEF PublishWrites, Promote, Most, Accepts, NoFence, NoHash, Go,
           TypeOK, Safe, Begun
  <2>5. Reported'
    BY <1>5, SMTT(60)
       DEF PublishWrites, Promote, Most, Accepts, NoFence, NoHash, Go,
           TypeOK, Safe, Reported, Read, NothingAhead, Begun
  <2>6. Fresh'
    BY <1>5
       DEF PublishWrites, Promote, Most, Accepts, NoFence, NoHash, Go,
           TypeOK, Safe, Fresh, Reported, Begun
  <2>7. Tried'
    BY <1>5
       DEF PublishWrites, Promote, Most, Accepts, NoFence, NoHash, Go,
           TypeOK, Safe, Tried
  <2> QED
    BY <2>1, <2>2, <2>3, <2>4, <2>5, <2>6, <2>7 DEF Safe
<1>6. CASE DeletePromotes(x)
  <2>1. Locked'
    BY <1>6
       DEF DeletePromotes, Promote, Most, NoFence, Go, TypeOK, Safe, Locked
  <2>2. Read'
    BY <1>6
       DEF DeletePromotes, Promote, Most, NoFence, Go, TypeOK, Safe, Read,
           Locked
  <2>3. NothingAhead'
    BY <1>6
       DEF DeletePromotes, Promote, Most, NoFence, Go, TypeOK, Safe,
           NothingAhead, Read, Locked
  <2>4. Begun'
    BY <1>6
       DEF DeletePromotes, Promote, Most, NoFence, Go, TypeOK, Safe, Begun
  <2>5. Reported'
    BY <1>6
       DEF DeletePromotes, Promote, Most, NoFence, Go, TypeOK, Safe,
           Reported, Read, NothingAhead, Begun
  <2>6. Fresh'
    BY <1>6
       DEF DeletePromotes, Promote, Most, NoFence, Go, TypeOK, Safe, Fresh,
           Reported, Begun
  <2>7. Tried'
    BY <1>6
       DEF DeletePromotes, Promote, Most, NoFence, Go, TypeOK, Safe, Tried
  <2> QED
    BY <2>1, <2>2, <2>3, <2>4, <2>5, <2>6, <2>7 DEF Safe
<1>7. CASE DeleteInvalidates(x)
  <2>1. Locked'
    BY <1>7
       DEF DeleteInvalidates, Most, NoHash, Go, TypeOK, Safe, Locked
  <2>2. Read'
    BY <1>7
       DEF DeleteInvalidates, Most, NoHash, Go, TypeOK, Safe, Read, Locked
  <2>3. NothingAhead'
    BY <1>7
       DEF DeleteInvalidates, Most, NoHash, Go, TypeOK, Safe, NothingAhead,
           Read, Locked
  <2>4. Begun'
    BY <1>7
       DEF DeleteInvalidates, Most, NoHash, Go, TypeOK, Safe, Begun
  <2>5. Reported'
    BY <1>7
       DEF DeleteInvalidates, Most, NoHash, Go, TypeOK, Safe, Reported, Read,
           NothingAhead, Begun
  <2>6. Fresh'
    BY <1>7
       DEF DeleteInvalidates, Most, NoHash, Go, TypeOK, Safe, Fresh,
           Reported, Begun
  <2>7. Tried'
    BY <1>7
       DEF DeleteInvalidates, Most, NoHash, Go, TypeOK, Safe, Tried
  <2> QED
    BY <2>1, <2>2, <2>3, <2>4, <2>5, <2>6, <2>7 DEF Safe
<1>8. CASE ReadHash(x)
  <2>1. Locked'
    BY <1>8
       DEF ReadHash, NoHash, Go, TypeOK, Safe, Locked
  <2>2. Read'
    BY <1>8
       DEF ReadHash, NoHash, Go, TypeOK, Safe, Read, Locked, NothingAhead
  <2>3. NothingAhead'
    BY <1>8
       DEF ReadHash, NoHash, Go, TypeOK, Safe, NothingAhead, Read, Locked
  <2>4. Begun'
    BY <1>8
       DEF ReadHash, NoHash, Go, TypeOK, Safe, Begun
  <2>5. Reported'
    BY <1>8
       DEF ReadHash, NoHash, Go, TypeOK, Safe, Reported, Read, NothingAhead,
           Begun
  <2>6. Fresh'
    BY <1>8
       DEF ReadHash, NoHash, Go, TypeOK, Safe, Fresh, Reported, Begun
  <2>7. Tried'
    BY <1>8
       DEF ReadHash, NoHash, Go, TypeOK, Safe, Tried
  <2> QED
    BY <2>1, <2>2, <2>3, <2>4, <2>5, <2>6, <2>7 DEF Safe
<1>9. CASE ReadFloor(x)
  <2>1. Locked'
    BY <1>9
       DEF ReadFloor, Lowest, Most, Go, TypeOK, Safe, Locked
  <2>2. Read'
    BY <1>9
       DEF ReadFloor, Lowest, Most, Go, TypeOK, Safe, Read, Locked
  <2>3. NothingAhead'
    BY <1>9
       DEF ReadFloor, Lowest, Most, Go, TypeOK, Safe, NothingAhead, Read,
           Locked
  <2>4. Begun'
    BY <1>9
       DEF ReadFloor, Lowest, Most, Go, TypeOK, Safe, Begun
  <2>5. Reported'
    BY <1>9
       DEF ReadFloor, Lowest, Most, Go, TypeOK, Safe, Reported, Read,
           NothingAhead, Begun
  <2>6. Fresh'
    BY <1>9
       DEF ReadFloor, Lowest, Most, Go, TypeOK, Safe, Fresh, Reported, Begun
  <2>7. Tried'
    BY <1>9
       DEF ReadFloor, Lowest, Most, Go, TypeOK, Safe, Tried
  <2> QED
    BY <2>1, <2>2, <2>3, <2>4, <2>5, <2>6, <2>7 DEF Safe
<1>10. CASE ReadRow(x)
  <2>1. Locked'
    BY <1>10
       DEF ReadRow, Sees, Go, TypeOK, Safe, Locked
  <2>2. Read'
    BY <1>10
       DEF ReadRow, Sees, Go, TypeOK, Safe, Read, Locked
  <2>3. NothingAhead'
    BY <1>10
       DEF ReadRow, Sees, Go, TypeOK, Safe, NothingAhead, Read, Locked
  <2>4. Begun'
    BY <1>10
       DEF ReadRow, Sees, Go, TypeOK, Safe, Begun
  <2>5. Reported'
    BY <1>10
       DEF ReadRow, Sees, Go, TypeOK, Safe, Reported, Read, NothingAhead, Begun
  <2>6. Fresh'
    BY <1>10
       DEF ReadRow, Sees, Go, TypeOK, Safe, Fresh, Reported, Begun
  <2>7. Tried'
    BY <1>10
       DEF ReadRow, Sees, Go, TypeOK, Safe, Tried
  <2> QED
    BY <2>1, <2>2, <2>3, <2>4, <2>5, <2>6, <2>7 DEF Safe
<1>11. CASE CheckFloor(x)
  <2>1. Locked'
    BY <1>11
       DEF CheckFloor, Lowest, Most, Go, TypeOK, Safe, Locked
  <2>2. Read'
    BY <1>11
       DEF CheckFloor, Lowest, Most, Go, TypeOK, Safe, Read, Locked
  <2>3. NothingAhead'
    BY <1>11
       DEF CheckFloor, Lowest, Most, Go, TypeOK, Safe, NothingAhead, Read,
           Locked
  <2>4. Begun'
    BY <1>11
       DEF CheckFloor, Lowest, Most, Go, TypeOK, Safe, Begun
  <2>5. Reported'
    BY <1>11
       DEF CheckFloor, Lowest, Most, Go, TypeOK, Safe, Reported, Read,
           NothingAhead, Begun
  <2>6. Fresh'
    BY <1>11
       DEF CheckFloor, Lowest, Most, Go, TypeOK, Safe, Fresh, Reported, Begun
  <2>7. Tried'
    BY <1>11
       DEF CheckFloor, Lowest, Most, Go, TypeOK, Safe, Tried
  <2> QED
    BY <2>1, <2>2, <2>3, <2>4, <2>5, <2>6, <2>7 DEF Safe
<1>12. CASE Populate(x)
  <2>1. Locked'
    BY <1>12
       DEF Populate, Promote, Most, Accepts, NoFence, NoHash, Go, TypeOK,
           Safe, Locked
  <2>2. Read'
    BY <1>12
       DEF Populate, Promote, Most, Accepts, NoFence, NoHash, Go, TypeOK,
           Safe, Read, Locked
  <2>3. NothingAhead'
    BY <1>12
       DEF Populate, Promote, Most, Accepts, NoFence, NoHash, Go, TypeOK,
           Safe, NothingAhead, Read, Locked
  <2>4. Begun'
    BY <1>12
       DEF Populate, Promote, Most, Accepts, NoFence, NoHash, Go, TypeOK,
           Safe, Begun
  <2>5. Reported'
    BY <1>12
       DEF Populate, Promote, Most, Accepts, NoFence, NoHash, Go, TypeOK,
           Safe, Reported, Read, NothingAhead, Begun
  <2>6. Fresh'
    BY <1>12
       DEF Populate, Promote, Most, Accepts, NoFence, NoHash, Go, TypeOK,
           Safe, Fresh, Reported, Begun
  <2>7. Tried'
    BY <1>12
       DEF Populate, Promote, Most, Accepts, NoFence, NoHash, Go, TypeOK,
           Safe, Tried
  <2> QED
    BY <2>1, <2>2, <2>3, <2>4, <2>5, <2>6, <2>7 DEF Safe
<1>13. CASE Regroup(x)
  <2>1. Locked'
    BY <1>13
       DEF Regroup, Go, TypeOK, Safe, Locked
  <2>2. Read'
    BY <1>13
       DEF Regroup, Go, TypeOK, Safe, Read, Locked
  <2>3. NothingAhead'
    BY <1>13
       DEF Regroup, Go, TypeOK, Safe, NothingAhead, Read, Locked
  <2>4. Begun'
    BY <1>13
       DEF Regroup, Go, TypeOK, Safe, Begun
  <2>5. Reported'
    BY <1>13
       DEF Regroup, Go, TypeOK, Safe, Reported, Read, NothingAhead, Begun
  <2>6. Fresh'
    BY <1>13
       DEF Regroup, Go, TypeOK, Safe, Fresh, Reported, Begun
  <2>7. Tried'
    BY <1>13
       DEF Regroup, Go, TypeOK, Safe, Tried
  <2> QED
    BY <2>1, <2>2, <2>3, <2>4, <2>5, <2>6, <2>7 DEF Safe
<1>14. CASE RefreshReads(x)
  <2>1. Locked'
    BY <1>14
       DEF RefreshReads, Sees, Go, TypeOK, Safe, Locked
  <2>2. Read'
    BY <1>14
       DEF RefreshReads, Sees, Go, TypeOK, Safe, Read, Locked
  <2>3. NothingAhead'
    BY <1>14
       DEF RefreshReads, Sees, Go, TypeOK, Safe, NothingAhead, Read, Locked
  <2>4. Begun'
    BY <1>14
       DEF RefreshReads, Sees, Go, TypeOK, Safe, Begun
  <2>5. Reported'
    BY <1>14
       DEF RefreshReads, Sees, Go, TypeOK, Safe, Reported, Read,
           NothingAhead, Begun
  <2>6. Fresh'
    BY <1>14
       DEF RefreshReads, Sees, Go, TypeOK, Safe, Fresh, Reported, Begun
  <2>7. Tried'
    BY <1>14
       DEF RefreshReads, Sees, Go, TypeOK, Safe, Tried
  <2> QED
    BY <2>1, <2>2, <2>3, <2>4, <2>5, <2>6, <2>7 DEF Safe
<1>15. CASE RefreshWrites(x)
  <2>0. floor' \in Nat /\ floor' >= floor
    BY <1>15, PromoteIs, MostIs DEF RefreshWrites, TypeOK
  <2>1. Locked'
    BY <1>15
       DEF RefreshWrites, Accepts, Promote, Most, NoFence, NoHash, Go,
           TypeOK, Safe, Locked
  <2>2. Read'
    BY <1>15
       DEF RefreshWrites, Accepts, Promote, Most, NoFence, NoHash, Go,
           TypeOK, Safe, Read, Locked
  <2>3. NothingAhead'
    BY <1>15
       DEF RefreshWrites, Accepts, Promote, Most, NoFence, NoHash, Go,
           TypeOK, Safe, NothingAhead, Read, Locked
  <2>4. Begun'
    BY <1>15
       DEF RefreshWrites, Accepts, Promote, Most, NoFence, NoHash, Go,
           TypeOK, Safe, Begun
  <2>5. Reported'
    BY <1>15, <2>0
       DEF RefreshWrites, Most, Go, TypeOK, Safe, Reported, Read,
           NothingAhead, Begun
  <2>6. Fresh'
    BY <1>15
       DEF RefreshWrites, Accepts, Promote, Most, NoFence, NoHash, Go,
           TypeOK, Safe, Fresh, Reported, Begun
  <2>7. Tried'
    BY <1>15, SMTT(60)
       DEF RefreshWrites, Accepts, Promote, Most, NoFence, NoHash, Go,
           TypeOK, Safe, Tried
  <2> QED
    BY <2>1, <2>2, <2>3, <2>4, <2>5, <2>6, <2>7 DEF Safe
<1>16. CASE RefreshVerifies(x)
  <2>1. Locked'
    BY <1>16
       DEF RefreshVerifies, Sees, Go, TypeOK, Safe, Locked
  <2>2. Read'
    BY <1>16
       DEF RefreshVerifies, Sees, Go, TypeOK, Safe, Read, Locked
  <2>3. NothingAhead'
    BY <1>16
       DEF RefreshVerifies, Sees, Go, TypeOK, Safe, NothingAhead, Read, Locked
  <2>4. Begun'
    BY <1>16
       DEF RefreshVerifies, Sees, Go, TypeOK, Safe, Begun
  <2>5. Reported'
    BY <1>16
       DEF RefreshVerifies, Sees, Go, TypeOK, Safe, Reported, Read,
           NothingAhead, Begun
  <2>6. Fresh'
    BY <1>16
       DEF RefreshVerifies, Sees, Go, TypeOK, Safe, Fresh, Reported, Begun
  <2>7. Tried'
    BY <1>16
       DEF RefreshVerifies, Sees, Go, TypeOK, Safe, Tried
  <2> QED
    BY <2>1, <2>2, <2>3, <2>4, <2>5, <2>6, <2>7 DEF Safe
<1>17. CASE Crash(x)
  <2>1. Locked'
    BY <1>17
       DEF Crash, Go, TypeOK, Safe, Locked, Ended
  <2>2. Read'
    BY <1>17
       DEF Crash, Go, TypeOK, Safe, Read, Locked, Ended
  <2>3. NothingAhead'
    BY <1>17
       DEF Crash, Go, TypeOK, Safe, NothingAhead, Read, Locked, Ended
  <2>4. Begun'
    BY <1>17
       DEF Crash, Go, TypeOK, Safe, Begun, Ended
  <2>5. Reported'
    BY <1>17
       DEF Crash, Go, TypeOK, Safe, Reported, Read, NothingAhead, Begun, Ended
  <2>6. Fresh'
    BY <1>17
       DEF Crash, Go, TypeOK, Safe, Fresh, Reported, Begun, Ended
  <2>7. Tried'
    BY <1>17
       DEF Crash, Go, TypeOK, Safe, Tried, Ended
  <2> QED
    BY <2>1, <2>2, <2>3, <2>4, <2>5, <2>6, <2>7 DEF Safe
<1> QED
  BY <1>1, <1>2, <1>3, <1>4, <1>5, <1>6, <1>7, <1>8, <1>9, <1>10, <1>11,
      <1>12, <1>13, <1>14, <1>15, <1>16, <1>17 DEF Step

\* Time changes nothing but what expires.
LEMMA TickSafe ==
    ASSUME TypeOK, Safe, Tick, UNCHANGED setting
    PROVE  TypeOK' /\ Safe'
  BY DEF Tick, TypeOK, Safe, Locked, Read, NothingAhead, Begun, Reported,
         Fresh, Tried, Most, NoHash, NoFence

\* A step that changes nothing.
LEMMA StutterSafe ==
    ASSUME TypeOK, Safe, UNCHANGED vars
    PROVE  TypeOK' /\ Safe'
  BY DEF vars, TypeOK, Safe, Locked, Read, NothingAhead, Begun, Reported,
         Fresh, Tried, Most

\* Every step keeps the invariant.
LEMMA Inductive ==
    ASSUME TypeOK, Safe, [Next]_vars
    PROVE  TypeOK' /\ Safe'
<1>1. CASE Tick /\ UNCHANGED setting
  BY <1>1, TickSafe
<1>2. ASSUME NEW x \in Procs, Step(x), UNCHANGED setting
      PROVE  TypeOK' /\ Safe'
  <2>1. TypeOK'
    BY <1>2, TypeStep DEF Safe
  <2> QED
    BY <1>2, <2>1, SafeStep
<1>3. CASE UNCHANGED vars
  BY <1>3, StutterSafe
<1> QED
  BY <1>1, <1>2, <1>3 DEF Next

\* The invariant holds throughout.
LEMMA AlwaysSafe == Spec => [](TypeOK /\ Safe)
<1>1. Init => TypeOK /\ Safe
  BY InitSafe
<1>2. (TypeOK /\ Safe) /\ [Next]_vars => (TypeOK /\ Safe)'
  BY Inductive
<1> QED
  BY <1>1, <1>2, PTL DEF Spec

\* The types of the row, of the keys in Redis and of the requests; the lock on
\* the row is held by a request whose transaction is under way, or by nobody.
THEOREM TypeCorrect == Spec => []TypeOK
  BY AlwaysSafe, PTL

\* Neither the hash nor the floor is ever ahead of the row, whatever fails or
\* is rolled back: what a pending fence refuses it refuses for its TTL only.
THEOREM NeverAhead == Spec => []NothingAhead
<1>1. Safe => NothingAhead
  BY DEF Safe
<1> QED
  BY <1>1, AlwaysSafe, PTL

\* Once a change is reported, nobody who asks later is served what was before
\* it, for every delay between reading the row and filling the hash.
THEOREM ReportedSeen == Spec => []ReportedIsSeen
<1>1. Safe => ReportedIsSeen
  BY DEF Safe, Fresh, ReportedIsSeen
<1> QED
  BY <1>1, AlwaysSafe, PTL

-----------------------------------------------------------------------------
(* While fences last: a commit is seen at once.                            *)

\* No fence runs out, and the version of the row is behind the fence or the
\* floor.
Guarded ==
    /\ now <= Horizon
    /\ pending = NoFence \/ pending.until > Horizon
    /\ user.version <= Most(Lowest, 1)

\* A transaction commits behind its fence; a reader that is past the floor, or
\* past the row, has what was committed when it started.
Behind(x) ==
    /\ at[x] = "commit" => seen[x].version < Lowest
    /\ since[x].committed <= user.version
    /\ at[x] \in {"check", "populate", "served"} =>
           since[x].committed <= seen[x].version

Committed == Horizon < FenceTTL => Guarded /\ \A x \in Procs : Behind(x)

\* What an accepted write publishes takes the place of the fence it removes.
LEMMA PromoteKeeps ==
    ASSUME TypeOK, NEW v \in Nat, Promote(v)
    PROVE  /\ Lowest \in Nat /\ Lowest' \in Nat /\ Lowest' >= Lowest
           /\ pending' = NoFence \/ pending' = pending
  BY DEF TypeOK, Promote, Lowest, Most, NoFence

\* A fence that is raised is ahead of the row its transaction read.
LEMMA FenceRaises ==
    ASSUME TypeOK, NEW x \in Procs, Fence(x), floor' = floor
    PROVE  /\ Lowest \in Nat /\ Lowest' \in Nat /\ Lowest' >= Lowest
           /\ seen[x].version < Lowest'
           /\ pending' = pending \/ pending'.until = now + FenceTTL
<1>1. seen[x].version \in Nat /\ pending.version \in Nat /\ floor \in Nat
  BY DEF TypeOK
<1>2. \/ pending' = pending /\ pending.version > seen[x].version + 1
      \/ /\ pending' = [version |-> seen[x].version + 1, until |-> now + FenceTTL]
         /\ pending.version <= seen[x].version + 1
  BY <1>1 DEF Fence, Raised
<1>3. /\ pending'.version \in Nat /\ pending'.version >= pending.version
      /\ pending'.version > seen[x].version
      /\ pending' = pending \/ pending'.until = now + FenceTTL
  BY <1>1, <1>2
<1> QED
  BY <1>1, <1>3 DEF Lowest, Most

\* A step of a request keeps what is lowest, and commits only behind it.
LEMMA GuardedStep ==
    ASSUME TypeOK, Safe, NEW x \in Procs, Step(x), UNCHANGED setting,
           Horizon < FenceTTL, Guarded, Behind(x)
    PROVE  /\ Guarded'
           /\ Lowest \in Nat /\ Lowest' \in Nat /\ Lowest' >= Lowest
           /\ user'.version \in Nat /\ user'.version >= user.version
<1>0. /\ Horizon \in Nat /\ FenceTTL \in Nat /\ Horizon' = Horizon
      /\ seen[x].version \in Nat /\ seen[x].version + 1 \in Nat
      /\ Lowest \in Nat /\ user.version \in Nat /\ now \in Nat
  BY AuthAssumption DEF TypeOK, Horizon, FenceTTL, Lowest, Most
<1>1. now' = now
  BY DEF Step, ChangeLocks, ChangeFences, ChangeCommits, PublishReads, PublishWrites,
     DeletePromotes, DeleteInvalidates, ReadHash, ReadFloor, ReadRow, CheckFloor,
     Populate, Regroup, RefreshReads, RefreshWrites, RefreshVerifies, Crash
<1>2. /\ Lowest' \in Nat /\ Lowest' >= Lowest
      /\ pending' = NoFence \/ pending' = pending \/ pending'.until = now + FenceTTL
  <2>1. CASE UNCHANGED <<pending, floor>>
    BY <1>0, <2>1 DEF Lowest
  <2>2. CASE \E v \in Nat : Promote(v)
    BY <2>2, PromoteKeeps
  <2>3. CASE Fence(x) /\ floor' = floor
    BY <2>3, FenceRaises
  <2>4. \/ UNCHANGED <<pending, floor>>
        \/ Promote(seen[x].version) \/ Promote(seen[x].version + 1)
        \/ Fence(x) /\ floor' = floor
    BY DEF Step, ChangeLocks, ChangeFences, ChangeCommits, PublishReads, PublishWrites,
       DeletePromotes, DeleteInvalidates, ReadHash, ReadFloor, ReadRow, CheckFloor,
       Populate, Regroup, RefreshReads, RefreshWrites, RefreshVerifies, Crash
  <2> QED
    BY <1>0, <2>1, <2>2, <2>3, <2>4
<1>3. /\ user'.version \in Nat /\ user'.version >= user.version
      /\ user'.version = user.version \/ user'.version <= Lowest
  <2>1. CASE ChangeCommits(x)
    <3>1. seen[x].version = user.version /\ seen[x].version < Lowest
      BY <2>1 DEF ChangeCommits, Safe, Locked, Behind
    <3>2. PICK d : user' = user \/ user' = [user EXCEPT !.version = seen[x].version + 1,
                                                        !.deleted = d]
      BY <2>1, Zenon DEF ChangeCommits
    <3>3. user'.version = user.version \/ user'.version = seen[x].version + 1
      BY <3>2 DEF TypeOK
    <3> QED
      BY <1>0, <3>1, <3>3
  <2>2. CASE Regroup(x)
    BY <1>0, <2>2 DEF Regroup, TypeOK
  <2>3. CASE ~ChangeCommits(x) /\ ~Regroup(x)
    <3>1. user' = user
      BY <2>3 DEF Step, ChangeLocks, ChangeFences, PublishReads, PublishWrites,
         DeletePromotes, DeleteInvalidates, ReadHash, ReadFloor, ReadRow, CheckFloor,
         Populate, RefreshReads, RefreshWrites, RefreshVerifies, Crash
    <3> QED
      BY <1>0, <3>1
  <2> QED
    BY <2>1, <2>2, <2>3
<1>4. user'.version <= Most(Lowest', 1)
  BY <1>0, <1>2, <1>3 DEF Guarded, Most
<1> QED
  BY <1>0, <1>1, <1>2, <1>3, <1>4 DEF Guarded

\* What a step of one request leaves the others.
LEMMA BehindOthers ==
    ASSUME TypeOK, NEW x \in Procs, NEW y \in Procs, x # y, Step(x), Behind(y),
           Lowest \in Nat, Lowest' \in Nat, Lowest' >= Lowest,
           user'.version \in Nat, user'.version >= user.version
    PROVE  Behind(y)'
<1>1. at'[y] = at[y] /\ seen'[y] = seen[y] /\ since'[y] = since[y]
  BY DEF Step, ChangeLocks, ChangeFences, ChangeCommits, PublishReads, PublishWrites,
     DeletePromotes, DeleteInvalidates, ReadHash, ReadFloor, ReadRow, CheckFloor,
     Populate, Regroup, RefreshReads, RefreshWrites, RefreshVerifies, Crash, Go, Sees,
     TypeOK
<1>2. since[y].committed \in Nat /\ seen[y].version \in Nat /\ user.version \in Nat
  BY DEF TypeOK
<1> QED
  BY <1>1, <1>2 DEF Behind

\* What it makes of itself.
LEMMA BehindSelf ==
    ASSUME TypeOK, Safe, NEW x \in Procs, Step(x), Guarded, Behind(x),
           Lowest \in Nat, Lowest' \in Nat, Lowest' >= Lowest,
           user'.version \in Nat, user'.version >= user.version
    PROVE  Behind(x)'
<1>0. /\ since[x].committed \in Nat /\ seen[x].version \in Nat /\ user.version \in Nat
      /\ since[x].committed <= user.version
  BY DEF TypeOK, Behind
<1>1. CASE ChangeFences(x)
  <2>0. since' = since /\ seen' = seen /\ floor' = floor
    BY <1>1 DEF ChangeFences
  <2>1. at'[x] = "failed" \/ (at'[x] = "commit" /\ Fence(x))
    BY <1>1 DEF ChangeFences, Go, TypeOK
  <2>2. CASE at'[x] = "failed"
    BY <1>0, <2>0, <2>2 DEF Behind
  <2>3. CASE at'[x] = "commit" /\ Fence(x)
    <3>1. seen[x].version < Lowest'
      BY <2>0, <2>3, FenceRaises
    <3> QED
      BY <1>0, <2>0, <2>3, <3>1 DEF Behind
  <2> QED
    BY <2>1, <2>2, <2>3
<1>2. CASE ReadHash(x)
  <2>1. since'[x].committed = user.version /\ user' = user
        /\ at'[x] \in {"row", "floor"}
    BY <1>2 DEF ReadHash, Go, TypeOK
  <2> QED
    BY <1>0, <2>1 DEF Behind
<1>3. CASE ReadFloor(x)
  <2>1. /\ since' = since /\ seen' = seen /\ at[x] = "floor"
        /\ at'[x] = "row" \/ (at'[x] = "served" /\ Lowest <= seen[x].version)
    BY <1>0, <1>3 DEF ReadFloor, Go, TypeOK
  <2>2. seen[x].version >= 1
    BY <2>1 DEF Safe, Begun
  <2>3. Lowest <= seen[x].version => since[x].committed <= seen[x].version
    BY <1>0, <2>2 DEF Guarded, Most
  <2> QED
    BY <1>0, <2>1, <2>3 DEF Behind
<1>4. CASE ReadRow(x)
  <2>1. /\ since' = since /\ seen'[x].version = user.version /\ user' = user
        /\ at'[x] \in {"failed", "check"}
    BY <1>4 DEF ReadRow, Go, Sees, TypeOK
  <2> QED
    BY <1>0, <2>1 DEF Behind
<1>5. CASE CheckFloor(x) \/ Populate(x)
  <2>1. /\ since' = since /\ seen' = seen /\ user' = user
        /\ at[x] \in {"check", "populate"}
        /\ at'[x] \in {"pending", "populate", "served"}
    BY <1>5 DEF CheckFloor, Populate, Go, TypeOK
  <2> QED
    BY <1>0, <2>1 DEF Behind
<1>6. CASE \/ ChangeLocks(x) \/ ChangeCommits(x) \/ PublishReads(x)
           \/ PublishWrites(x) \/ DeletePromotes(x) \/ DeleteInvalidates(x)
           \/ Regroup(x) \/ RefreshReads(x) \/ RefreshWrites(x)
           \/ RefreshVerifies(x) \/ Crash(x)
  <2>1. /\ since' = since
        /\ at'[x] \notin {"commit", "check", "populate", "served"}
    BY <1>6 DEF ChangeLocks, ChangeCommits, PublishReads, PublishWrites,
       DeletePromotes, DeleteInvalidates, Regroup, RefreshReads, RefreshWrites,
       RefreshVerifies, Crash, Go, TypeOK
  <2> QED
    BY <1>0, <2>1 DEF Behind
<1> QED
  BY <1>1, <1>2, <1>3, <1>4, <1>5, <1>6 DEF Step

\* Every step keeps it; time passes without a fence running out.
LEMMA CommittedStep ==
    ASSUME TypeOK, Safe, Committed, [Next]_vars
    PROVE  Committed'
<1>0. CASE UNCHANGED vars
  BY <1>0 DEF vars, Committed, Guarded, Behind, Horizon, FenceTTL, Lowest
<1>1. CASE Next
  <2>0. /\ setting' = setting /\ Horizon' = Horizon /\ FenceTTL' = FenceTTL
        /\ Horizon \in Nat /\ FenceTTL \in Nat /\ now \in Nat
    BY <1>1, AuthAssumption DEF Next, Horizon, FenceTTL, TypeOK
  <2> SUFFICES ASSUME Horizon < FenceTTL, Guarded, \A y \in Procs : Behind(y)
               PROVE  Guarded' /\ \A y \in Procs : Behind(y)'
    BY <2>0 DEF Committed
  <2>1. CASE Tick
    <3>1. pending' = pending
      BY <2>0, <2>1 DEF Tick, Guarded, NoFence, TypeOK
    <3>2. /\ UNCHANGED <<user, floor, at, seen, since>> /\ now' <= Horizon
          /\ Lowest' = Lowest
      BY <2>0, <2>1, <3>1 DEF Tick, Lowest
    <3> QED
      BY <2>0, <3>1, <3>2 DEF Guarded, Behind
  <2>2. ASSUME NEW x \in Procs, Step(x)
        PROVE  Guarded' /\ \A y \in Procs : Behind(y)'
    <3>1. /\ Guarded'
          /\ Lowest \in Nat /\ Lowest' \in Nat /\ Lowest' >= Lowest
          /\ user'.version \in Nat /\ user'.version >= user.version
      BY <2>0, <2>2, GuardedStep
    <3>2. Behind(x)'
      BY <2>2, <3>1, BehindSelf
    <3>3. ASSUME NEW y \in Procs, x # y PROVE Behind(y)'
      BY <2>2, <3>1, <3>3, BehindOthers
    <3> QED
      BY <3>1, <3>2, <3>3
  <2> QED
    BY <1>1, <2>1, <2>2 DEF Next
<1> QED
  BY <1>0, <1>1

\* Initially nothing is committed but the first version.
LEMMA CommittedInit == Init => Committed
<1> SUFFICES ASSUME Init PROVE Guarded /\ \A x \in Procs : Behind(x)
  BY DEF Committed
<1>1. setting \in Settings /\ Horizon \in Nat
  BY AuthAssumption DEF Init, Horizon
<1>2. floor \in {0, 1} /\ pending = NoFence /\ user.version = 1 /\ now = 0
  BY DEF Init
<1>3. Guarded
  BY <1>1, <1>2 DEF Guarded, Lowest, Most, NoFence
<1>4. ASSUME NEW x \in Procs PROVE Behind(x)
  <2>1. at[x] = "start" /\ since[x].committed = 0 /\ user.version = 1
    BY DEF Init
  <2> QED
    BY <2>1 DEF Behind
<1> QED
  BY <1>3, <1>4

\* From the commit of a change on nobody who asks is served what was before
\* it, wherever the change stops, for every TTL, as long as its fence lasts.
THEOREM CommittedSeen == Spec => []CommittedIsSeen
<1>1. Init => Committed
  BY CommittedInit
<1>2. TypeOK /\ Safe /\ Committed /\ [Next]_vars => Committed'
  BY CommittedStep
<1>3. TypeOK /\ Committed => CommittedIsSeen
  BY DEF TypeOK, Committed, Behind, CommittedIsSeen
<1> QED
  BY <1>1, <1>2, <1>3, AlwaysSafe, PTL DEF Spec

-----------------------------------------------------------------------------
(* Where only the group changes.                                           *)

OnlyGroups == \A x \in Procs : Kind[x] = "regroup"

\* A refresh whose write is to come, has failed, or is to be verified against
\* a row that has changed since.
Unfinished(x) ==
    \/ at[x] \in {"refresh", "write", "failed"}
    \/ at[x] = "verify" /\ seen[x].group # user.group

\* Only refreshes are under way and they have the only version there is.
Refreshing ==
    /\ user.version = 1 /\ user.deleted = FALSE
    /\ \A x \in Procs :
           /\ at[x] \in {"start", "refresh", "write", "verify", "refreshed", "failed"}
           /\ at[x] \in {"write", "verify"} => seen[x].version = 1

Differs == hash.version = user.version /\ hash.group # user.group

GroupInv ==
    OnlyGroups => Refreshing /\ (Differs => \E x \in Procs : Unfinished(x))

\* A step of such a request.
LEMMA GroupStep ==
    ASSUME TypeOK, NEW x \in Procs, Step(x), UNCHANGED setting, OnlyGroups,
           Refreshing, Differs => \E y \in Procs : Unfinished(y)
    PROVE  Refreshing' /\ (Differs' => \E y \in Procs : Unfinished(y)')
<1>0. /\ Kind[x] = "regroup" /\ user.group \in Nat /\ user.version = 1
      /\ user.deleted = FALSE
      /\ at[x] \in {"start", "refresh", "write", "verify", "refreshed", "failed"}
      /\ hash.group \in Nat /\ hash.version \in Nat
      /\ seen[x].version \in Nat /\ seen[x].group \in Nat
  BY DEF OnlyGroups, Refreshing, TypeOK
<1>1. Regroup(x) \/ RefreshReads(x) \/ RefreshWrites(x) \/ RefreshVerifies(x) \/ Crash(x)
  BY <1>0 DEF Step, ChangeLocks, ChangeFences, ChangeCommits, PublishReads,
     PublishWrites, DeletePromotes, DeleteInvalidates, ReadHash, ReadFloor, ReadRow,
     CheckFloor, Populate
<1>2. \A y \in Procs : y # x => at'[y] = at[y] /\ seen'[y] = seen[y]
  BY <1>1 DEF Regroup, RefreshReads, RefreshWrites, RefreshVerifies, Crash, Go, Sees,
     TypeOK
<1>3. CASE Regroup(x)
  <2>1. /\ user'.version = 1 /\ user'.deleted = FALSE /\ seen' = seen
        /\ at'[x] = "refresh"
    BY <1>0, <1>3 DEF Regroup, Go, TypeOK
  <2> QED
    BY <1>2, <2>1 DEF Refreshing, Unfinished
<1>4. CASE RefreshReads(x)
  <2>1. user' = user /\ at'[x] = "write" /\ seen'[x].version = 1
    BY <1>0, <1>4 DEF RefreshReads, Go, Sees, TypeOK
  <2> QED
    BY <1>2, <2>1 DEF Refreshing, Unfinished
<1>5. CASE RefreshWrites(x)
  <2>0. user' = user /\ seen' = seen /\ at[x] = "write" /\ seen[x].version = 1
    BY <1>5 DEF RefreshWrites, Refreshing
  <2>1. \/ at'[x] = "failed"
        \/ /\ at'[x] = "verify"
           /\ hash' = IF hash.version = seen[x].version
                      THEN [hash EXCEPT !.group = seen[x].group] ELSE hash
    BY <1>5 DEF RefreshWrites, Go, TypeOK
  <2>2. CASE at'[x] = "failed"
    BY <1>2, <2>0, <2>2 DEF Refreshing, Unfinished
  <2>3. CASE /\ at'[x] = "verify"
             /\ hash' = IF hash.version = seen[x].version
                        THEN [hash EXCEPT !.group = seen[x].group] ELSE hash
    <3>1. Refreshing'
      BY <1>2, <2>0, <2>3 DEF Refreshing
    <3>2. Differs' => seen'[x].group # user'.group
      BY <1>0, <2>0, <2>3 DEF Differs, TypeOK
    <3> QED
      BY <2>3, <3>1, <3>2 DEF Unfinished
  <2> QED
    BY <2>1, <2>2, <2>3
<1>6. CASE RefreshVerifies(x)
  <2>1. /\ user' = user /\ hash' = hash /\ at[x] = "verify"
        /\ seen'[x].version = 1
        /\ at'[x] = "write" \/ (at'[x] = "refreshed" /\ Stable(x))
    BY <1>0, <1>6 DEF RefreshVerifies, Go, Sees, TypeOK
  <2>2. Refreshing'
    BY <1>2, <2>1 DEF Refreshing
  <2>3. CASE at'[x] = "write"
    BY <2>2, <2>3 DEF Unfinished
  <2>4. CASE at'[x] = "refreshed" /\ Stable(x)
    <3>1. ~Unfinished(x)
      BY <2>1, <2>4 DEF Unfinished, Stable
    <3>2. ASSUME NEW y \in Procs, Unfinished(y) PROVE Unfinished(y)'
      BY <1>2, <2>1, <3>1, <3>2 DEF Unfinished
    <3>3. Differs' => Differs
      BY <2>1 DEF Differs
    <3> QED
      BY <2>2, <3>2, <3>3
  <2> QED
    BY <2>1, <2>3, <2>4
<1>7. CASE Crash(x)
  <2>1. user' = user /\ seen' = seen /\ at'[x] = "failed"
    BY <1>7 DEF Crash, Go, TypeOK
  <2> QED
    BY <1>2, <2>1 DEF Refreshing, Unfinished
<1> QED
  BY <1>1, <1>3, <1>4, <1>5, <1>6, <1>7

\* Every step keeps it.
LEMMA GroupInductive ==
    ASSUME TypeOK, GroupInv, [Next]_vars
    PROVE  GroupInv'
<1>0. CASE UNCHANGED vars
  BY <1>0 DEF vars, GroupInv, OnlyGroups, Kind, Refreshing, Differs, Unfinished
<1>1. CASE Next
  <2>0. setting' = setting /\ Kind' = Kind
    BY <1>1 DEF Next, Kind
  <2> SUFFICES ASSUME OnlyGroups, Refreshing,
                      Differs => \E x \in Procs : Unfinished(x)
               PROVE  Refreshing' /\ (Differs' => \E x \in Procs : Unfinished(x)')
    BY <2>0 DEF GroupInv, OnlyGroups
  <2>1. CASE Tick
    <3>1. UNCHANGED <<user, at, seen>> /\ (hash' = NoHash \/ hash' = hash)
      BY <2>1 DEF Tick
    <3>2. Differs' => Differs
      BY <3>1 DEF Differs, NoHash, Refreshing
    <3> QED
      BY <3>1, <3>2 DEF Refreshing, Unfinished
  <2>2. ASSUME NEW x \in Procs, Step(x)
        PROVE  Refreshing' /\ (Differs' => \E y \in Procs : Unfinished(y)')
    BY <2>0, <2>2, GroupStep
  <2> QED
    BY <1>1, <2>1, <2>2 DEF Next
<1> QED
  BY <1>0, <1>1

\* Initially the hash, if there is one, has the group of the row.
LEMMA GroupInit == Init => GroupInv
<1> SUFFICES ASSUME Init PROVE Refreshing /\ ~Differs
  BY DEF GroupInv
<1>1. user.version = 1 /\ user.group = 1 /\ user.deleted = FALSE
      /\ \A x \in Procs : at[x] = "start"
  BY DEF Init
<1>2. hash.version = 0 \/ hash.group = 1
  BY DEF Init, NoHash
<1> QED
  BY <1>1, <1>2 DEF Refreshing, Differs

\* When every change of the group has been refreshed the hash has the group of
\* the row, whichever refresh wrote last, however many there are.
THEOREM GroupsConverge == Spec => []GroupConverges
<1>1. Init => GroupInv
  BY GroupInit
<1>2. TypeOK /\ GroupInv /\ [Next]_vars => GroupInv'
  BY GroupInductive
<1>3. GroupInv => GroupConverges
  BY DEF GroupInv, GroupConverges, OnlyGroups, Differs, Unfinished
<1> QED
  BY <1>1, <1>2, <1>3, AlwaysSafe, PTL DEF Spec

\* The run's behaviours are behaviours of this cache or leave it alone.
LEMMA RunIsCache == MCSpec => Spec
<1>1. MCInit => Init
  BY DEF MCInit
<1>2. [MCNext]_<<part, vars, tokenVars>> => [Next]_vars
  BY DEF MCNext
<1> QED
  BY <1>1, <1>2, PTL DEF MCSpec, Spec

\* The hash of a user in every behaviour of the run's specification, for every
\* number of requests, every TTL and every number of faults: a commit is seen
\* while its fence lasts, nothing that lasts runs ahead of the row, and the
\* group converges.
THEOREM AuthSound == MCSpec => []AuthHashIsSound
<1>1. CommittedIsSeen /\ NothingAhead /\ GroupConverges => AuthHashIsSound
  BY DEF AuthHashIsSound
<1> QED
  BY <1>1, RunIsCache, CommittedSeen, NeverAhead, GroupsConverge, PTL

-----------------------------------------------------------------------------
(* TokenCache: the types.                                                  *)

Hashes == [version : Nat, on : BOOLEAN, quota : Int, until : Nat]
Rows == [version : Nat, on : BOOLEAN, quota : Int, gone : BOOLEAN]
Snapshots == [version : Nat, on : BOOLEAN, quota : Int]
UsePlaces ==
    {"start", "row", "rowagain", "init", "initagain", "reserve", "reserveagain",
     "direct", "persist", "compensate", "charged", "refused"}
ChangePlaces == {"fence", "del", "write", "changed", "failed"}

TokenTyped ==
    /\ terms \in TokenSettings
    /\ clock \in Nat
    /\ row \in Rows
    /\ copy \in Hashes
    /\ fence \in Nat
    /\ place \in [Procs -> UsePlaces \cup ChangePlaces]
    /\ read \in [Procs -> Snapshots]
    /\ due \in [Procs -> Nat]
    /\ before \in [Procs -> Nat]
    /\ told \in [version : Nat, when : Nat]
    /\ spent \in Int
    /\ faults \in [redis : Nat, db : Nat]

\* What a setting gives.
LEMMA TermsAre ==
    ASSUME terms \in TokenSettings
    PROVE  /\ Token!Does \in [Procs -> {"use", "status", "edit", "delete", "drop"}]
           /\ Token!Grant \in Nat /\ Token!HashTTL \in Nat /\ Token!LastTime \in Nat
           /\ terms.redis \in Nat /\ terms.db \in Nat /\ terms.warm \in BOOLEAN
  BY TokenAssumption DEF Token!Does, Token!Grant, Token!HashTTL, Token!LastTime

\* What is read and what is published.
LEMMA SnapshotIs ==
    ASSUME NEW r, NEW v, NEW o, NEW q, r.version = v, r.on = o, r.quota = q,
           v \in Nat, o \in BOOLEAN, q \in Int
    PROVE  /\ Token!Snapshot(r) \in Snapshots
           /\ Token!Snapshot(r).version = v /\ Token!Snapshot(r).on = o
           /\ Token!Snapshot(r).quota = q
  BY DEF Token!Snapshot, Snapshots

LEMMA HashOfIs ==
    ASSUME NEW r \in Snapshots, clock \in Nat, terms \in TokenSettings
    PROVE  /\ Token!HashOf(r) \in Hashes
           /\ Token!HashOf(r).version = r.version /\ Token!HashOf(r).on = r.on
           /\ Token!HashOf(r).quota = r.quota
           /\ Token!HashOf(r).until = clock + Token!HashTTL
<1>1. clock + Token!HashTTL \in Nat
  BY TermsAre
<1> QED
  BY <1>1 DEF Token!HashOf, Hashes, Snapshots

\* A hash that is prolonged or charged is the same hash.
LEMMA HashProlonged ==
    ASSUME NEW h \in Hashes, NEW t \in Nat
    PROVE  /\ [h EXCEPT !.until = t] \in Hashes
           /\ [h EXCEPT !.until = t].version = h.version
           /\ [h EXCEPT !.until = t].on = h.on
           /\ [h EXCEPT !.until = t].quota = h.quota
           /\ [h EXCEPT !.until = t].until = t
  BY DEF Hashes

LEMMA HashCharged ==
    ASSUME NEW h \in Hashes, NEW q \in Int
    PROVE  /\ [h EXCEPT !.quota = q] \in Hashes
           /\ [h EXCEPT !.quota = q].version = h.version
           /\ [h EXCEPT !.quota = q].on = h.on
           /\ [h EXCEPT !.quota = q].quota = q
           /\ [h EXCEPT !.quota = q].until = h.until
  BY DEF Hashes

LEMMA NoHashIs ==
    /\ Token!NoHash \in Hashes
    /\ Token!NoHash.version = 0 /\ Token!NoHash.quota = 0
    /\ Token!NoHash.until = 0
  BY DEF Token!NoHash, Hashes

\* A row that is charged is the same row.
LEMMA RowKept ==
    ASSUME NEW r \in Rows, NEW q \in Int
    PROVE  /\ [r EXCEPT !.quota = q] \in Rows
           /\ [r EXCEPT !.quota = q].version = r.version
           /\ [r EXCEPT !.quota = q].on = r.on
           /\ [r EXCEPT !.quota = q].gone = r.gone
           /\ [r EXCEPT !.quota = q].quota = q
  BY DEF Rows

\* A row that is changed has the next version.
LEMMA ChangedIs ==
    ASSUME TokenTyped, NEW x \in Procs
    PROVE  Token!Changed(x) \in Rows /\ Token!Changed(x).version = row.version + 1
<1>0. /\ row \in Rows /\ read[x] \in Snapshots /\ Token!Grant \in Nat
      /\ row.version \in Nat /\ row.on \in BOOLEAN /\ row.quota \in Int
      /\ row.gone \in BOOLEAN /\ read[x].on \in BOOLEAN /\ read[x].quota \in Int
  BY TermsAre DEF TokenTyped, Rows, Snapshots
<1> DEFINE o == CASE Token!Does[x] = "status" -> FALSE
                  [] Token!Does[x] = "edit" -> read[x].on
                  [] OTHER -> row.on
           q == CASE Token!Does[x] = "status" -> read[x].quota
                  [] Token!Does[x] = "edit" -> Token!Grant
                  [] OTHER -> row.quota
           g == row.gone \/ Token!Does[x] = "delete"
<1>1. o \in BOOLEAN /\ q \in Int /\ g \in BOOLEAN
  <2>1. o = FALSE \/ o = read[x].on \/ o = row.on
    BY Zenon
  <2>2. o \in BOOLEAN
    BY <1>0, <2>1
  <2>3. q = read[x].quota \/ q = Token!Grant \/ q = row.quota
    BY Zenon
  <2>4. q \in Int
    BY <1>0, <2>3
  <2> QED
    BY <2>2, <2>4
<1>2. Token!Changed(x) = [row EXCEPT !.version = row.version + 1, !.on = o,
                                     !.quota = q, !.gone = g]
  BY <1>0 DEF Token!Changed, Rows
<1>3. row.version + 1 \in Nat
  BY <1>0
<1> HIDE DEF o, q, g
<1> QED
  BY <1>0, <1>1, <1>2, <1>3 DEF Rows

\* What a step of a request can do to the hash.
LEMMA CopyStep ==
    ASSUME TokenTyped, NEW x \in Procs, Token!Step(x)
    PROVE  \/ copy' = copy \/ copy' = Token!NoHash
           \/ copy # Token!NoHash /\ \E q \in Int : copy' = [copy EXCEPT !.quota = q]
           \/ /\ place[x] \in {"init", "initagain"} /\ fence <= clock
              /\ \/ /\ copy # Token!NoHash
                    /\ copy' = [copy EXCEPT !.until = clock + Token!HashTTL]
                 \/ copy = Token!NoHash /\ copy' = Token!HashOf(read[x])
<1>0. fence \in Nat /\ clock \in Nat /\ copy \in Hashes /\ Cost \in Nat
      /\ copy.quota \in Int /\ copy.quota - Cost \in Int /\ copy.quota + Cost \in Int
  BY TokenAssumption DEF TokenTyped, Hashes
<1>1. CASE Token!InitToken(x)
  BY <1>0, <1>1 DEF Token!InitToken, Token!Published
<1>2. CASE Token!ReserveInCache(x)
  <2>1. copy' = copy \/ (copy # Token!NoHash /\ copy' = [copy EXCEPT !.quota = @ - Cost])
    BY <1>2 DEF Token!ReserveInCache
  <2> QED
    BY <1>0, <2>1
<1>3. CASE Token!Compensate(x)
  <2>1. copy' = copy \/ (copy # Token!NoHash /\ copy' = [copy EXCEPT !.quota = @ + Cost])
    BY <1>3 DEF Token!Compensate, Token!GivenBack
  <2> QED
    BY <1>0, <2>1
<1>4. CASE Token!DropHash(x)
  BY <1>4 DEF Token!DropHash
<1>5. CASE \/ Token!ReadHash(x) \/ Token!ReadRow(x) \/ Token!ReserveInRow(x)
           \/ Token!Persist(x) \/ Token!ReadForChange(x) \/ Token!RaiseFence(x)
           \/ Token!WriteRow(x)
  BY <1>5 DEF Token!ReadHash, Token!ReadRow, Token!ReserveInRow, Token!Persist,
     Token!ReadForChange, Token!RaiseFence, Token!WriteRow
<1> QED
  BY <1>1, <1>2, <1>3, <1>4, <1>5 DEF Token!Step

\* To the row: it is charged, or changed by the one who has dropped the hash.
LEMMA RowStep ==
    ASSUME TokenTyped, NEW x \in Procs, Token!Step(x)
    PROVE  \/ UNCHANGED <<row, told, spent>>
           \/ /\ row' = [row EXCEPT !.quota = row.quota - Cost]
              /\ told' = told /\ spent' = spent + Cost
           \/ /\ Token!WriteRow(x) /\ row' = Token!Changed(x)
              /\ told' = [version |-> row.version + 1, when |-> clock]
              /\ spent' = spent
<1>1. CASE Token!ReserveInRow(x) \/ Token!Persist(x)
  <2>1. told' = told /\ (Token!Charged \/ UNCHANGED <<row, spent>>)
    BY <1>1 DEF Token!ReserveInRow, Token!Persist
  <2>2. [row EXCEPT !.quota = @ - Cost] = [row EXCEPT !.quota = row.quota - Cost]
    BY DEF TokenTyped, Rows
  <2> QED
    BY <2>1, <2>2 DEF Token!Charged
<1>2. CASE Token!WriteRow(x)
  BY <1>2 DEF Token!WriteRow
<1>3. CASE \/ Token!ReadHash(x) \/ Token!ReadRow(x) \/ Token!InitToken(x)
           \/ Token!ReserveInCache(x) \/ Token!Compensate(x)
           \/ Token!ReadForChange(x) \/ Token!RaiseFence(x) \/ Token!DropHash(x)
  BY <1>3 DEF Token!ReadHash, Token!ReadRow, Token!InitToken, Token!ReserveInCache,
     Token!Compensate, Token!ReadForChange, Token!RaiseFence, Token!DropHash
<1> QED
  BY <1>1, <1>2, <1>3 DEF Token!Step

\* To what it has read.
LEMMA ReadStep ==
    ASSUME TokenTyped, NEW x \in Procs, Token!Step(x)
    PROVE  \/ read' = read
           \/ read' = [read EXCEPT ![x] = Token!Snapshot(copy)]
           \/ read' = [read EXCEPT ![x] = Token!Snapshot(row)]
  BY DEF Token!Step, Token!ReadHash, Token!ReadRow, Token!InitToken,
     Token!ReserveInCache, Token!ReserveInRow, Token!Persist, Token!Compensate,
     Token!ReadForChange, Token!RaiseFence, Token!DropHash, Token!WriteRow

\* To the rest; it never stops at a place nobody knows.
LEMMA OtherStep ==
    ASSUME TokenTyped, NEW x \in Procs, Token!Step(x)
    PROVE  /\ clock' = clock
           /\ \E p \in UsePlaces \cup ChangePlaces : place' = [place EXCEPT ![x] = p]
           /\ due' = due \/ due' = [due EXCEPT ![x] = clock + MaxDelay]
           /\ before' = before \/ before' = [before EXCEPT ![x] = told.version]
           /\ fence' = fence \/ fence' = clock + TokenFenceTTL
           /\ \/ faults' = faults
              \/ faults.redis > 0 /\ faults' = [faults EXCEPT !.redis = @ - 1]
              \/ faults.db > 0 /\ faults' = [faults EXCEPT !.db = @ - 1]
<1>1. clock' = clock
  BY DEF Token!Step, Token!ReadHash, Token!ReadRow, Token!InitToken,
     Token!ReserveInCache, Token!ReserveInRow, Token!Persist, Token!Compensate,
     Token!ReadForChange, Token!RaiseFence, Token!DropHash, Token!WriteRow
<1>2. \E p \in UsePlaces \cup ChangePlaces : place' = [place EXCEPT ![x] = p]
  BY DEF Token!Step, Token!ReadHash, Token!ReadRow, Token!InitToken,
     Token!ReserveInCache, Token!ReserveInRow, Token!Persist, Token!Compensate,
     Token!ReadForChange, Token!RaiseFence, Token!DropHash, Token!WriteRow,
     Token!Go, Token!Verdict, UsePlaces, ChangePlaces
<1>3. /\ due' = due \/ due' = [due EXCEPT ![x] = clock + MaxDelay]
      /\ before' = before \/ before' = [before EXCEPT ![x] = told.version]
      /\ fence' = fence \/ fence' = clock + TokenFenceTTL
  BY DEF Token!Step, Token!ReadHash, Token!ReadRow, Token!InitToken,
     Token!ReserveInCache, Token!ReserveInRow, Token!Persist, Token!Compensate,
     Token!ReadForChange, Token!RaiseFence, Token!DropHash, Token!WriteRow,
     Token!Raised
<1>4. \/ faults' = faults
      \/ faults.redis > 0 /\ faults' = [faults EXCEPT !.redis = @ - 1]
      \/ faults.db > 0 /\ faults' = [faults EXCEPT !.db = @ - 1]
  <2>1. faults' = faults \/ Token!Spend("redis") \/ Token!Spend("db")
    BY DEF Token!Step, Token!ReadHash, Token!ReadRow, Token!InitToken,
       Token!ReserveInCache, Token!ReserveInRow, Token!Persist, Token!Compensate,
       Token!ReadForChange, Token!RaiseFence, Token!DropHash, Token!WriteRow
  <2> QED
    BY <2>1 DEF Token!Spend, TokenTyped
<1> QED
  BY <1>1, <1>2, <1>3, <1>4

\* Every step keeps the types.
LEMMA TokenTypedStep ==
    ASSUME TokenTyped, Token!Next \/ UNCHANGED tokenVars
    PROVE  TokenTyped'
<1>0. CASE UNCHANGED tokenVars
  BY <1>0 DEF tokenVars, TokenTyped
<1>1. CASE Token!Tick /\ UNCHANGED terms
  <2>1. clock' \in Nat /\ copy' \in Hashes /\ fence' \in Nat
    BY <1>1, NoHashIs DEF Token!Tick, TokenTyped
  <2> QED
    BY <1>1, <2>1 DEF Token!Tick, TokenTyped
<1>2. ASSUME NEW x \in Procs, Token!Step(x), UNCHANGED terms
      PROVE  TokenTyped'
  <2>0. /\ clock \in Nat /\ copy \in Hashes /\ row \in Rows /\ read[x] \in Snapshots
        /\ clock + Token!HashTTL \in Nat /\ Cost \in Nat
        /\ clock + TokenFenceTTL \in Nat /\ clock + MaxDelay \in Nat
    BY TermsAre, TokenAssumption DEF TokenTyped
  <2>1. copy' \in Hashes
    <3>1. \A q \in Int : [copy EXCEPT !.quota = q] \in Hashes
      BY <2>0, HashCharged
    <3>2. [copy EXCEPT !.until = clock + Token!HashTTL] \in Hashes
      BY <2>0, HashProlonged
    <3>3. Token!HashOf(read[x]) \in Hashes
      BY <2>0, HashOfIs DEF TokenTyped
    <3> QED
      BY <1>2, <2>0, <3>1, <3>2, <3>3, CopyStep, NoHashIs
  <2>2. row' \in Rows /\ told' \in [version : Nat, when : Nat] /\ spent' \in Int
    <3>0. row.quota - Cost \in Int /\ row.version + 1 \in Nat
      BY <2>0 DEF Rows
    <3>1. [row EXCEPT !.quota = row.quota - Cost] \in Rows
      BY <2>0, <3>0, RowKept
    <3>2. Token!Changed(x) \in Rows
      BY <1>2, ChangedIs
    <3>3. spent + Cost \in Int
      BY <2>0 DEF TokenTyped
    <3> QED
      BY <1>2, <2>0, <3>0, <3>1, <3>2, <3>3, RowStep DEF TokenTyped
  <2>3. read' \in [Procs -> Snapshots]
    <3>1. Token!Snapshot(copy) \in Snapshots
      BY <2>0, SnapshotIs DEF Hashes
    <3>2. Token!Snapshot(row) \in Snapshots
      BY <2>0, SnapshotIs DEF Rows
    <3> QED
      BY <1>2, <3>1, <3>2, ReadStep DEF TokenTyped
  <2>4. /\ clock' \in Nat /\ fence' \in Nat
        /\ place' \in [Procs -> UsePlaces \cup ChangePlaces]
        /\ due' \in [Procs -> Nat] /\ before' \in [Procs -> Nat]
    BY <1>2, <2>0, OtherStep DEF TokenTyped
  <2>5. faults' \in [redis : Nat, db : Nat]
    BY <1>2, OtherStep DEF TokenTyped
  <2> QED
    BY <1>2, <2>1, <2>2, <2>3, <2>4, <2>5 DEF TokenTyped
<1> QED
  BY <1>0, <1>1, <1>2 DEF Token!Next

\* The token as it is created.
LEMMA CreatedIs ==
    ASSUME terms \in TokenSettings
    PROVE  /\ Token!Created \in Rows
           /\ Token!Created.version = 1 /\ Token!Created.on = TRUE
           /\ Token!Created.quota = Token!Grant /\ Token!Created.gone = FALSE
  BY TermsAre DEF Token!Created, Rows

\* The hash it starts with, if any.
LEMMA FirstHash ==
    ASSUME Token!Init
    PROVE  /\ copy \in Hashes
           /\ \/ copy = Token!NoHash
              \/ /\ copy.version = 1 /\ copy.on = TRUE /\ copy.quota = Token!Grant
                 /\ copy.until = Token!HashTTL
<1>0. /\ terms \in TokenSettings /\ clock = 0 /\ Token!Grant \in Nat
      /\ Token!HashTTL \in Nat
  BY TermsAre DEF Token!Init
<1>1. copy = Token!NoHash \/ copy = Token!HashOf(Token!Created)
  BY DEF Token!Init
<1>2. Token!HashOf(Token!Created) =
          [version |-> 1, on |-> TRUE, quota |-> Token!Grant, until |-> Token!HashTTL]
  BY <1>0 DEF Token!HashOf, Token!Created
<1>3. Token!HashOf(Token!Created) \in Hashes
  BY <1>0, <1>2 DEF Hashes
<1>4. CASE copy = Token!NoHash
  BY <1>4, NoHashIs
<1>5. CASE copy = Token!HashOf(Token!Created)
  BY <1>2, <1>3, <1>5
<1> QED
  BY <1>1, <1>4, <1>5

LEMMA TokenTypedInit == Token!Init => TokenTyped
<1> SUFFICES ASSUME Token!Init PROVE TokenTyped
  OBVIOUS
<1>1. /\ terms \in TokenSettings /\ Token!LastTime \in Nat
      /\ terms.redis \in Nat /\ terms.db \in Nat
  BY TermsAre DEF Token!Init
<1>2. row \in Rows /\ copy \in Hashes
  BY <1>1, CreatedIs, FirstHash DEF Token!Init
<1>3. read \in [Procs -> Snapshots]
  BY DEF Token!Init, Snapshots
<1>4. place \in [Procs -> UsePlaces \cup ChangePlaces]
  BY DEF Token!Init, UsePlaces
<1> QED
  BY <1>1, <1>2, <1>3, <1>4 DEF Token!Init, TokenTyped

-----------------------------------------------------------------------------
(* The hash is the token as some change left it.                           *)

\* A snapshot of the row, or of one before it.
OfRow(v, o) == v <= row.version /\ (v = row.version => o = row.on)

OfRowInv ==
    /\ row.version >= 1
    /\ OfRow(copy.version, copy.on)
    /\ \A x \in Procs : OfRow(read[x].version, read[x].on)

\* What is published was read; a change leaves everything behind.
LEMMA OfRowStep ==
    ASSUME TokenTyped, OfRowInv, Token!Next \/ UNCHANGED tokenVars
    PROVE  OfRowInv'
<1>0. CASE UNCHANGED tokenVars
  BY <1>0 DEF tokenVars, OfRowInv, OfRow
<1>1. CASE Token!Tick
  <2>1. UNCHANGED <<row, read>> /\ (copy' = copy \/ copy' = Token!NoHash)
    BY <1>1 DEF Token!Tick
  <2>2. row.version \in Nat
    BY DEF TokenTyped, Rows
  <2> QED
    BY <2>1, <2>2, NoHashIs DEF OfRowInv, OfRow
<1>2. ASSUME NEW x \in Procs, Token!Step(x)
      PROVE  OfRowInv'
  <2>0. /\ clock \in Nat /\ copy \in Hashes /\ row \in Rows /\ read[x] \in Snapshots
        /\ terms \in TokenSettings /\ clock + Token!HashTTL \in Nat
        /\ Cost \in Nat /\ row.quota \in Int /\ row.quota - Cost \in Int
        /\ row.version \in Nat /\ copy.version \in Nat
        /\ \A y \in Procs : read[y].version \in Nat
    BY TermsAre, TokenAssumption DEF TokenTyped, Rows, Hashes, Snapshots
  <2>1. \/ copy'.version = copy.version /\ copy'.on = copy.on
        \/ copy'.version = 0
        \/ copy'.version = read[x].version /\ copy'.on = read[x].on
    <3>1. \A q \in Int : /\ [copy EXCEPT !.quota = q].version = copy.version
                         /\ [copy EXCEPT !.quota = q].on = copy.on
      BY <2>0, HashCharged
    <3>2. /\ [copy EXCEPT !.until = clock + Token!HashTTL].version = copy.version
          /\ [copy EXCEPT !.until = clock + Token!HashTTL].on = copy.on
      BY <2>0, HashProlonged
    <3>3. /\ Token!HashOf(read[x]).version = read[x].version
          /\ Token!HashOf(read[x]).on = read[x].on
      BY <2>0, HashOfIs
    <3> QED
      BY <1>2, <3>1, <3>2, <3>3, CopyStep, NoHashIs
  <2>2. \A y \in Procs :
            \/ read'[y] = read[y]
            \/ read'[y].version = copy.version /\ read'[y].on = copy.on
            \/ read'[y].version = row.version /\ read'[y].on = row.on
    <3>1. /\ Token!Snapshot(copy).version = copy.version
          /\ Token!Snapshot(copy).on = copy.on
      BY DEF Token!Snapshot
    <3>2. /\ Token!Snapshot(row).version = row.version
          /\ Token!Snapshot(row).on = row.on
      BY DEF Token!Snapshot
    <3>3. read \in [Procs -> Snapshots]
      BY DEF TokenTyped
    <3> QED
      BY <1>2, <3>1, <3>2, <3>3, ReadStep
  <2>3. \/ row'.version = row.version /\ row'.on = row.on
        \/ row'.version = row.version + 1
    <3>1. /\ [row EXCEPT !.quota = row.quota - Cost].version = row.version
          /\ [row EXCEPT !.quota = row.quota - Cost].on = row.on
      BY <2>0, RowKept
    <3>2. Token!Changed(x).version = row.version + 1
      BY <1>2, ChangedIs
    <3> QED
      BY <1>2, <3>1, <3>2, RowStep
  <2>4. OfRow(copy.version, copy.on) /\ OfRow(read[x].version, read[x].on)
        /\ row.version >= 1 /\ \A y \in Procs : OfRow(read[y].version, read[y].on)
    BY DEF OfRowInv
  <2>5. CASE row'.version = row.version /\ row'.on = row.on
    BY <2>0, <2>1, <2>2, <2>4, <2>5 DEF OfRowInv, OfRow
  <2>6. CASE row'.version = row.version + 1
    <3>1. copy'.version <= row.version
      BY <2>0, <2>1, <2>4 DEF OfRow
    <3>2. \A y \in Procs : read'[y].version <= row.version
      BY <2>0, <2>2, <2>4 DEF OfRow
    <3>3. copy'.version \in Nat /\ \A y \in Procs : read'[y].version \in Nat
      BY <2>0, <2>1, <2>2
    <3> QED
      BY <2>0, <2>6, <2>4, <3>1, <3>2, <3>3 DEF OfRowInv, OfRow
  <2> QED
    BY <2>3, <2>5, <2>6
<1> QED
  BY <1>0, <1>1, <1>2 DEF Token!Next

LEMMA OfRowInit == Token!Init => OfRowInv
<1> SUFFICES ASSUME Token!Init PROVE OfRowInv
  OBVIOUS
<1>1. row.version = 1 /\ row.on = TRUE
  BY CreatedIs DEF Token!Init
<1>2. copy.version = 0 \/ (copy.version = 1 /\ copy.on = TRUE)
  BY FirstHash, NoHashIs
<1>3. \A x \in Procs : read[x].version = 0
  BY DEF Token!Init
<1>4. OfRow(copy.version, copy.on)
  <2>1. CASE copy.version = 0
    BY <1>1, <2>1 DEF OfRow
  <2>2. CASE copy.version = 1 /\ copy.on = TRUE
    <3>1. copy.on = row.on
      BY <1>1, <2>2, Zenon
    <3>2. copy.version <= row.version
      BY <1>1, <2>2
    <3> QED
      BY <3>1, <3>2, Zenon DEF OfRow
  <2> QED
    BY <1>2, <2>1, <2>2
<1> QED
  BY <1>1, <1>3, <1>4 DEF OfRowInv, OfRow

-----------------------------------------------------------------------------
(* A use is judged by the last change that was reported.                   *)

\* Where a request stands in time.  A snapshot that waits to be published is
\* the row's or is kept out by a fence that outlives the wait; a change stays
\* behind its fence until it has written the row, and its hash is gone.
Timely(x) ==
    /\ before[x] <= row.version
    /\ place[x] \in {"init", "reserve"} => before[x] <= read[x].version
    /\ place[x] \in {"init", "initagain"} =>
           /\ clock <= due[x] /\ due[x] <= clock + MaxDelay
           /\ read[x].version = row.version \/ fence > due[x]
    /\ place[x] \in {"del", "write"} =>
           clock <= due[x] /\ due[x] + TokenFenceTTL <= fence + MaxDelay
    /\ place[x] = "write" => copy = Token!NoHash

Reached ==
    /\ faults.redis = 0
    /\ told.version = row.version
    /\ fence <= clock + TokenFenceTTL
    /\ copy # Token!NoHash => copy.version = row.version
    /\ \A x \in Procs : Timely(x)

ReachedInv == terms.redis = 0 => Reached

\* Numbers and their types.
LEMMA TokenNumbers ==
    ASSUME TokenTyped
    PROVE  /\ clock \in Nat /\ fence \in Nat /\ row.version \in Nat
           /\ copy.version \in Nat /\ told.version \in Nat
           /\ MaxDelay \in Nat /\ TokenFenceTTL \in Nat
           /\ 2 * MaxDelay < TokenFenceTTL
           /\ \A x \in Procs : /\ due[x] \in Nat /\ before[x] \in Nat
                               /\ read[x].version \in Nat
  BY TokenAssumption DEF TokenTyped, Rows, Hashes, Snapshots

\* The fence of a change is up until the row is written, and outlives every
\* snapshot that was read before.
LEMMA Shielded ==
    ASSUME TokenTyped, NEW x \in Procs, Timely(x), place[x] \in {"del", "write"}
    PROVE  fence > clock + MaxDelay /\ fence > clock
  BY TokenNumbers DEF Timely

\* What no step but the writing of the row does to the others.
LEMMA TimelyOthers ==
    ASSUME TokenTyped, NEW x \in Procs, NEW y \in Procs, x # y, Token!Step(x),
           Timely(y), row'.version = row.version, fence' \in Nat, fence' >= fence,
           place[y] = "write" => copy' = Token!NoHash
    PROVE  Timely(y)'
<1>1. place'[y] = place[y] /\ due'[y] = due[y] /\ before'[y] = before[y] /\ clock' = clock
  BY OtherStep DEF TokenTyped
<1>2. read'[y] = read[y]
  BY ReadStep DEF TokenTyped
<1>3. /\ clock \in Nat /\ fence \in Nat /\ due[y] \in Nat /\ MaxDelay \in Nat
      /\ TokenFenceTTL \in Nat
  BY TokenNumbers
<1> QED
  BY <1>1, <1>2, <1>3 DEF Timely

\* And to the hash.
LEMMA ReachedCopy ==
    ASSUME TokenTyped, Reached, NEW x \in Procs, Token!Step(x)
    PROVE  /\ copy' # Token!NoHash => copy'.version = row.version
           /\ \A y \in Procs : place[y] = "write" => copy' = Token!NoHash
<1>0. /\ clock \in Nat /\ copy \in Hashes /\ read[x] \in Snapshots /\ fence \in Nat
      /\ terms \in TokenSettings /\ clock + Token!HashTTL \in Nat
      /\ due[x] \in Nat
  BY TermsAre, TokenNumbers DEF TokenTyped
<1>1. \A q \in Int : [copy EXCEPT !.quota = q].version = copy.version
  BY <1>0, HashCharged
<1>2. [copy EXCEPT !.until = clock + Token!HashTTL].version = copy.version
  BY <1>0, HashProlonged
<1>3. Token!HashOf(read[x]).version = read[x].version
  BY <1>0, HashOfIs
<1>4. ASSUME place[x] \in {"init", "initagain"}, fence <= clock
      PROVE  read[x].version = row.version
  BY <1>0, <1>4 DEF Reached, Timely
<1>5. copy' # Token!NoHash => copy'.version = row.version
  <2>1. CASE copy' = copy
    BY <2>1 DEF Reached
  <2>2. CASE copy' = Token!NoHash
    BY <2>2
  <2>3. CASE copy # Token!NoHash /\ \E q \in Int : copy' = [copy EXCEPT !.quota = q]
    BY <2>3, <1>1 DEF Reached
  <2>4. CASE /\ place[x] \in {"init", "initagain"} /\ fence <= clock
             /\ \/ /\ copy # Token!NoHash
                   /\ copy' = [copy EXCEPT !.until = clock + Token!HashTTL]
                \/ copy = Token!NoHash /\ copy' = Token!HashOf(read[x])
    BY <2>4, <1>2, <1>3, <1>4 DEF Reached
  <2> QED
    BY <2>1, <2>2, <2>3, <2>4, CopyStep
<1>6. ASSUME NEW y \in Procs, place[y] = "write"
      PROVE  copy' = Token!NoHash
  <2>1. fence > clock /\ copy = Token!NoHash
    BY <1>6, Shielded DEF Reached, Timely
  <2> QED
    BY <1>0, <2>1, CopyStep
<1> QED
  BY <1>5, <1>6

\* A step after which the row has the version it had.
LEMMA ReachedQuiet ==
    ASSUME TokenTyped, TokenTyped', Reached, NEW x \in Procs, Token!Step(x),
           row'.version = row.version, told'.version = told.version
    PROVE  Reached'
<1>0. /\ clock \in Nat /\ fence \in Nat /\ fence' \in Nat /\ due[x] \in Nat
      /\ before[x] \in Nat /\ read[x].version \in Nat /\ row.version \in Nat
      /\ MaxDelay \in Nat /\ TokenFenceTTL \in Nat /\ clock + MaxDelay \in Nat
  BY TokenNumbers DEF TokenTyped
<1>1. fence' >= fence /\ fence' <= clock' + TokenFenceTTL /\ clock' = clock
  BY <1>0, OtherStep DEF Reached
<1>2. faults'.redis = 0
  BY OtherStep DEF Reached, TokenTyped
<1>3. /\ copy' # Token!NoHash => copy'.version = row.version
      /\ \A y \in Procs : place[y] = "write" => copy' = Token!NoHash
  BY ReachedCopy
<1>4. ASSUME NEW y \in Procs, x # y PROVE Timely(y)'
  BY <1>0, <1>1, <1>3, <1>4, TimelyOthers DEF Reached
<1>5. ~Token!Spend("redis")
  BY DEF Token!Spend, Reached
<1>6. Timely(x)'
  <2>0. Timely(x) /\ told.version = row.version
    BY DEF Reached
  <2>1. CASE Token!ReadHash(x)
    <3>1. before'[x] = row.version
      BY <2>0, <2>1 DEF Token!ReadHash, TokenTyped
    <3>2. \/ /\ copy # Token!NoHash /\ read'[x] = Token!Snapshot(copy)
             /\ place'[x] \in {"reserve", "refused"}
          \/ place'[x] = "row"
      BY <1>5, <2>1 DEF Token!ReadHash, Token!Go, Token!Verdict, TokenTyped
    <3>3. Token!Snapshot(copy).version = copy.version
      BY DEF Token!Snapshot
    <3> QED
      BY <1>0, <3>1, <3>2, <3>3 DEF Timely, Reached
  <2>2. CASE Token!ReadRow(x)
    <3>1. before' = before /\ fence' = fence
      BY <2>2 DEF Token!ReadRow
    <3>2. \/ place'[x] \in {"refused", "direct"}
          \/ /\ place'[x] \in {"init", "initagain"}
             /\ read'[x] = Token!Snapshot(row) /\ due'[x] = clock + MaxDelay
      BY <2>2 DEF Token!ReadRow, Token!Go, TokenTyped
    <3>3. Token!Snapshot(row).version = row.version
      BY DEF Token!Snapshot
    <3> QED
      BY <1>0, <1>1, <2>0, <3>1, <3>2, <3>3 DEF Timely
  <2>3. CASE Token!InitToken(x)
    <3>1. before' = before /\ read' = read
      BY <2>3 DEF Token!InitToken
    <3>2. \/ place'[x] \in {"refused", "reserveagain"}
          \/ place'[x] = "reserve" /\ place[x] = "init"
      BY <2>3 DEF Token!InitToken, Token!Go, Token!Verdict, TokenTyped
    <3> QED
      BY <2>0, <3>1, <3>2 DEF Timely
  <2>4. CASE \/ Token!ReserveInCache(x) \/ Token!ReserveInRow(x)
             \/ Token!Persist(x) \/ Token!Compensate(x) \/ Token!ReadForChange(x)
             \/ Token!WriteRow(x)
    <3>1. /\ before' = before
          /\ place'[x] \notin {"init", "initagain", "reserve", "del", "write"}
      BY <2>4 DEF Token!ReserveInCache, Token!ReserveInRow, Token!Persist,
         Token!Compensate, Token!ReadForChange, Token!WriteRow, Token!Go, TokenTyped
    <3> QED
      BY <2>0, <3>1 DEF Timely
  <2>5. CASE Token!RaiseFence(x)
    <3>1. /\ before' = before /\ place'[x] = "del"
          /\ due'[x] = clock + MaxDelay /\ fence' = clock + TokenFenceTTL
      BY <1>5, <2>5 DEF Token!RaiseFence, Token!Raised, Token!Go, TokenTyped
    <3> QED
      BY <1>0, <1>1, <2>0, <3>1 DEF Timely
  <2>6. CASE Token!DropHash(x)
    <3>1. /\ before' = before /\ place[x] = "del" /\ place'[x] = "write"
          /\ due' = due /\ fence' = fence /\ copy' = Token!NoHash
      BY <1>5, <2>6 DEF Token!DropHash, Token!Go, TokenTyped
    <3> QED
      BY <1>1, <2>0, <3>1 DEF Timely
  <2> QED
    BY <2>1, <2>2, <2>3, <2>4, <2>5, <2>6 DEF Token!Step
<1> QED
  BY <1>1, <1>2, <1>3, <1>4, <1>6 DEF Reached

\* The row is written: every snapshot from before is kept out until it is due.
LEMMA ReachedWrite ==
    ASSUME TokenTyped, Reached, NEW x \in Procs, Token!WriteRow(x),
           row'.version = row.version + 1, told'.version = row.version + 1
    PROVE  Reached'
<1>0. /\ clock \in Nat /\ fence \in Nat /\ row.version \in Nat /\ MaxDelay \in Nat
      /\ TokenFenceTTL \in Nat
  BY TokenNumbers
<1>1. /\ UNCHANGED <<clock, copy, fence, read, due, before>> /\ place[x] = "write"
      /\ place'[x] \in {"changed", "failed"}
      /\ \A y \in Procs : y # x => place'[y] = place[y]
  BY DEF Token!WriteRow, Token!Go, TokenTyped
<1>2. copy = Token!NoHash /\ fence > clock + MaxDelay
  BY <1>1, Shielded DEF Reached, Timely
<1>3. faults'.redis = 0
  BY OtherStep DEF Reached, TokenTyped, Token!Step
<1>4. ASSUME NEW y \in Procs PROVE Timely(y)'
  <2>0. due[y] \in Nat /\ before[y] \in Nat /\ read[y].version \in Nat /\ Timely(y)
    BY TokenNumbers DEF Reached
  <2>1. place'[y] = place[y] \/ place'[y] \in {"changed", "failed"}
    BY <1>1
  <2> QED
    BY <1>0, <1>1, <1>2, <2>0, <2>1 DEF Timely
<1> QED
  BY <1>1, <1>2, <1>3, <1>4 DEF Reached

\* Time passes for a request that has still time.
LEMMA ReachedTick ==
    ASSUME TokenTyped, Reached, Token!Tick
    PROVE  Reached'
<1>0. /\ clock \in Nat /\ fence \in Nat /\ row.version \in Nat /\ MaxDelay \in Nat
      /\ TokenFenceTTL \in Nat
  BY TokenNumbers
<1>1. /\ UNCHANGED <<row, place, read, due, before, told, faults>>
      /\ clock' = clock + 1 /\ (copy' = copy \/ copy' = Token!NoHash)
      /\ fence' = IF fence <= clock + 1 THEN 0 ELSE fence
  BY DEF Token!Tick
<1>2. ASSUME NEW x \in Procs PROVE Timely(x)'
  <2>0. /\ due[x] \in Nat /\ Timely(x)
        /\ place[x] \in {"init", "initagain", "del", "write"} => clock < due[x]
    BY TokenNumbers DEF Reached, Token!Tick
  <2>1. CASE place[x] \in {"init", "initagain"}
    <3>1. read[x].version = row.version \/ fence' > due[x]
      BY <1>0, <1>1, <2>0, <2>1 DEF Timely
    <3> QED
      BY <1>0, <1>1, <2>0, <2>1, <3>1 DEF Timely
  <2>2. CASE place[x] \in {"del", "write"}
    <3>1. fence' = fence
      BY <1>0, <1>1, <2>0, <2>2, TokenNumbers DEF Timely
    <3> QED
      BY <1>0, <1>1, <2>0, <2>2, <3>1 DEF Timely
  <2>3. CASE place[x] \notin {"init", "initagain", "del", "write"}
    BY <1>1, <2>0, <2>3 DEF Timely
  <2> QED
    BY <2>1, <2>2, <2>3
<1> QED
  BY <1>0, <1>1, <1>2 DEF Reached

\* Every step keeps it.
LEMMA ReachedStep ==
    ASSUME TokenTyped, TokenTyped', ReachedInv, Token!Next \/ UNCHANGED tokenVars
    PROVE  ReachedInv'
<1>0. CASE UNCHANGED tokenVars
  BY <1>0 DEF tokenVars, ReachedInv, Reached, Timely
<1>1. CASE Token!Next
  <2>0. terms' = terms
    BY <1>1 DEF Token!Next
  <2> SUFFICES ASSUME Reached PROVE Reached'
    BY <2>0 DEF ReachedInv
  <2>1. CASE Token!Tick
    BY <2>1, ReachedTick
  <2>2. ASSUME NEW x \in Procs, Token!Step(x) PROVE Reached'
    <3>0. row \in Rows /\ row.quota - Cost \in Int /\ terms \in TokenSettings
      BY TokenAssumption DEF TokenTyped, Rows
    <3>1. [row EXCEPT !.quota = row.quota - Cost].version = row.version
      BY <3>0, RowKept
    <3>2. Token!Changed(x).version = row.version + 1
      BY <2>2, ChangedIs
    <3>3. \/ row'.version = row.version /\ told'.version = told.version
          \/ /\ Token!WriteRow(x) /\ row'.version = row.version + 1
             /\ told'.version = row.version + 1
      <4>1. CASE UNCHANGED <<row, told, spent>>
        BY <4>1
      <4>2. CASE /\ row' = [row EXCEPT !.quota = row.quota - Cost]
                 /\ told' = told /\ spent' = spent + Cost
        BY <4>2, <3>1
      <4>3. CASE /\ Token!WriteRow(x) /\ row' = Token!Changed(x)
                 /\ told' = [version |-> row.version + 1, when |-> clock]
                 /\ spent' = spent
        BY <4>3, <3>2
      <4> QED
        BY <2>2, <4>1, <4>2, <4>3, RowStep
    <3> QED
      BY <2>2, <3>3, ReachedQuiet, ReachedWrite
  <2> QED
    BY <1>1, <2>1, <2>2 DEF Token!Next
<1> QED
  BY <1>0, <1>1

LEMMA ReachedInit == Token!Init => ReachedInv
<1> SUFFICES ASSUME Token!Init, terms.redis = 0 PROVE Reached
  BY DEF ReachedInv
<1>1. row.version = 1 /\ told.version = 1 /\ faults.redis = 0
  <2>1. row = Token!Created /\ terms \in TokenSettings
    BY DEF Token!Init
  <2>2. told = [version |-> 1, when |-> 0]
        /\ faults = [redis |-> terms.redis, db |-> terms.db]
    BY DEF Token!Init
  <2> QED
    BY <2>1, <2>2, CreatedIs
<1>2. copy = Token!NoHash \/ copy.version = 1
  BY FirstHash
<1>3. fence = 0 /\ clock = 0 /\ TokenFenceTTL \in Nat
  BY TokenAssumption DEF Token!Init
<1>4. \A x \in Procs : place[x] = "start" /\ before[x] = 0
  BY DEF Token!Init
<1>5. ASSUME NEW x \in Procs PROVE Timely(x)
  <2>1. place[x] = "start" /\ before[x] <= row.version
    BY <1>1, <1>4
  <2> QED
    BY <2>1 DEF Timely
<1>6. fence <= clock + TokenFenceTTL
  BY <1>3
<1> QED
  BY <1>1, <1>2, <1>5, <1>6 DEF Reached

-----------------------------------------------------------------------------
(* The uses of a token that nobody changes.                                *)

\* What the hash has given out and the row has not been charged yet.
Holding == {x \in Procs : place[x] \in {"persist", "compensate"}}
Owing == Cost * Cardinality(Holding)

\* A use goes through the hash alone, and has one to reserve from.
Orderly(x) ==
    /\ place[x] \in {"start", "row", "init", "reserve", "persist", "compensate",
                     "charged", "refused"}
    /\ place[x] = "reserve" => copy # Token!NoHash
    /\ place[x] = "init" =>
           /\ read[x].version = 1
           /\ copy = Token!NoHash => read[x].quota = Token!Grant

\* Before there is a hash nothing is charged; from then on it stays, never
\* falls below zero, and has with what it has given out what the row has.
Covered ==
    \/ copy = Token!NoHash /\ spent = 0 /\ Holding = {}
    \/ /\ copy.version = 1 /\ copy.until > Token!LastTime
       /\ copy.quota >= 0 /\ copy.quota + Owing = row.quota

Uses ==
    /\ faults.redis = 0 /\ fence = 0 /\ clock <= Token!LastTime
    /\ row.version = 1 /\ row.gone = FALSE /\ row.quota = Token!Grant - spent
    /\ Covered
    /\ \A x \in Procs : Orderly(x)

UsesInv == Token!OnlyUses => Uses

LEMMA HoldingFinite ==
    IsFiniteSet(Holding) /\ Cardinality(Holding) \in Nat /\ Owing \in Nat
<1>1. IsFiniteSet(Holding)
  BY TokenAssumption, FS_Subset DEF Holding
<1>2. Cardinality(Holding) \in Nat
  BY <1>1, FS_CardinalityType
<1> QED
  BY <1>1, <1>2, TokenAssumption DEF Owing

\* A use starts to hold, goes on, or stops.
LEMMA HoldingStarts ==
    ASSUME TokenTyped, NEW x \in Procs, place[x] \notin {"persist", "compensate"},
           place' = [place EXCEPT ![x] = "persist"]
    PROVE  Owing' = Owing + Cost
<1>1. Holding' = Holding \cup {x} /\ x \notin Holding
  BY DEF Holding, TokenTyped
<1>2. Cardinality(Holding') = Cardinality(Holding) + 1
  BY <1>1, HoldingFinite, FS_AddElement
<1> QED
  BY <1>2, HoldingFinite, TokenAssumption DEF Owing

LEMMA HoldingStops ==
    ASSUME TokenTyped, NEW x \in Procs, place[x] \in {"persist", "compensate"},
           NEW p \in {"charged", "refused"}, place' = [place EXCEPT ![x] = p]
    PROVE  Owing' = Owing - Cost
<1>1. Holding' = Holding \ {x} /\ x \in Holding
  BY DEF Holding, TokenTyped
<1>2. Cardinality(Holding') = Cardinality(Holding) - 1
  BY <1>1, HoldingFinite, FS_RemoveElement
<1> QED
  BY <1>2, HoldingFinite, TokenAssumption DEF Owing

LEMMA HoldingStays ==
    ASSUME TokenTyped, NEW x \in Procs, NEW p, place' = [place EXCEPT ![x] = p],
           place[x] \in {"persist", "compensate"} <=> p \in {"persist", "compensate"}
    PROVE  Holding' = Holding /\ Owing' = Owing
<1>1. Holding' = Holding
  BY DEF Holding, TokenTyped
<1> QED
  BY <1>1 DEF Owing

\* The others go on as they were, if the hash stays.
LEMMA OrderlyOthers ==
    ASSUME TokenTyped, NEW x \in Procs, NEW y \in Procs, x # y, Orderly(y),
           Token!Step(x), terms' = terms,
           copy # Token!NoHash => copy' # Token!NoHash
    PROVE  Orderly(y)'
<1>1. place'[y] = place[y]
  BY OtherStep DEF TokenTyped
<1>2. read'[y] = read[y]
  BY ReadStep DEF TokenTyped
<1>3. Token!Grant' = Token!Grant
  BY DEF Token!Grant
<1> QED
  BY <1>1, <1>2, <1>3 DEF Orderly

\* A hash that holds is one.
LEMMA CoveredIs ==
    ASSUME TokenTyped, Covered
    PROVE  /\ copy = Token!NoHash => spent = 0 /\ Holding = {}
           /\ copy # Token!NoHash => /\ copy.version = 1
                                     /\ copy.until > Token!LastTime
                                     /\ copy.quota >= 0
                                     /\ copy.quota + Owing = row.quota
<1>1. CASE copy = Token!NoHash
  <2>1. copy.version = 0
    BY <1>1, NoHashIs
  <2> QED
    BY <1>1, <2>1 DEF Covered
<1>2. CASE copy # Token!NoHash
  BY <1>2 DEF Covered
<1> QED
  BY <1>1, <1>2

\* Every step of a use keeps the balance.
LEMMA UsesOf ==
    ASSUME TokenTyped, TokenTyped', Token!OnlyUses, Uses, NEW x \in Procs,
           Token!Step(x), terms' = terms
    PROVE  Uses'
<1>0. /\ Token!Grant \in Nat /\ Token!LastTime \in Nat /\ Token!HashTTL \in Nat
      /\ spent \in Int /\ Owing \in Nat /\ Cost \in Nat /\ clock \in Nat
      /\ copy \in Hashes /\ copy.quota \in Int /\ copy.until \in Nat
      /\ row \in Rows /\ row.quota \in Int /\ read[x] \in Snapshots
      /\ terms \in TokenSettings /\ clock + Token!HashTTL \in Nat
  BY TermsAre, TokenAssumption, HoldingFinite DEF TokenTyped, Hashes, Rows
<1>1. /\ Token!Grant' = Token!Grant /\ Token!LastTime' = Token!LastTime
      /\ Token!HashTTL > Token!LastTime /\ Token!Does[x] = "use"
      /\ clock' = clock
  BY <1>0, OtherStep DEF Token!Grant, Token!LastTime, Token!OnlyUses
<1>2. faults'.redis = 0 /\ ~Token!Spend("redis")
  BY OtherStep DEF Uses, TokenTyped, Token!Spend
<1>3. /\ Orderly(x) /\ Covered /\ fence = 0 /\ row.version = 1 /\ row.gone = FALSE
      /\ row.quota = Token!Grant - spent
  BY DEF Uses
<1>4. \/ Token!ReadHash(x) \/ Token!ReadRow(x) \/ Token!InitToken(x)
      \/ Token!ReserveInCache(x) \/ Token!Persist(x) \/ Token!Compensate(x)
  BY <1>1, <1>3 DEF Token!Step, Token!ReserveInRow, Token!ReadForChange,
     Token!RaiseFence, Token!DropHash, Token!WriteRow, Orderly
<1>5. fence' = fence
  BY <1>4 DEF Token!ReadHash, Token!ReadRow, Token!InitToken, Token!ReserveInCache,
     Token!Persist, Token!Compensate
<1>6. ASSUME Covered', copy # Token!NoHash => copy' # Token!NoHash, Orderly(x)',
             row'.version = 1, row'.gone = FALSE, row'.quota = Token!Grant - spent'
      PROVE  Uses'
  <2>1. ASSUME NEW y \in Procs, y # x PROVE Orderly(y)'
    BY <1>6, <2>1, OrderlyOthers DEF Uses
  <2> QED
    BY <1>1, <1>2, <1>3, <1>5, <1>6, <2>1 DEF Uses
<1>7. /\ copy = Token!NoHash => spent = 0 /\ Holding = {}
      /\ copy # Token!NoHash => /\ copy.version = 1
                                /\ copy.until > Token!LastTime
                                /\ copy.quota >= 0
                                /\ copy.quota + Owing = row.quota
  BY <1>3, CoveredIs
<1>10. CASE Token!ReadHash(x)
  <2>1. UNCHANGED <<copy, row, spent>> /\ place[x] = "start"
    BY <1>10 DEF Token!ReadHash
  <2>2. PICK p \in {"row", "refused", "reserve"} :
            /\ place' = [place EXCEPT ![x] = p]
            /\ p = "reserve" => copy # Token!NoHash
    BY <1>10 DEF Token!ReadHash, Token!Go, Token!Verdict
  <2>3. Holding' = Holding /\ Owing' = Owing
    BY <2>1, <2>2, HoldingStays
  <2>4. Covered'
    BY <1>1, <1>3, <2>1, <2>3 DEF Covered
  <2>5. Orderly(x)'
    BY <2>1, <2>2 DEF Orderly, TokenTyped
  <2> QED
    BY <1>3, <1>6, <2>1, <2>4, <2>5
<1>11. CASE Token!ReadRow(x)
  <2>1. /\ UNCHANGED <<copy, row, spent>> /\ place[x] = "row"
        /\ place' = [place EXCEPT ![x] = "init"]
        /\ read'[x] = Token!Snapshot(row)
    BY <1>3, <1>11 DEF Token!ReadRow, Token!Go, Orderly, TokenTyped
  <2>2. Token!Snapshot(row).version = 1 /\ Token!Snapshot(row).quota = row.quota
    BY <1>3 DEF Token!Snapshot
  <2>3. Holding' = Holding /\ Owing' = Owing
    BY <2>1, HoldingStays
  <2>4. Covered'
    BY <1>1, <1>3, <2>1, <2>3 DEF Covered
  <2>5. copy = Token!NoHash => row.quota = Token!Grant
    BY <1>0, <1>3, <1>7
  <2>6. Orderly(x)'
    BY <1>1, <2>1, <2>2, <2>5 DEF Orderly, TokenTyped
  <2> QED
    BY <1>3, <1>6, <2>1, <2>4, <2>6
<1>12. CASE Token!InitToken(x)
  <2>1. /\ UNCHANGED <<row, spent, read>> /\ place[x] = "init"
        /\ copy' = Token!Published(read[x])
    BY <1>2, <1>3, <1>12 DEF Token!InitToken, Orderly
  <2>2. PICK p \in {"refused", "reserve"} : place' = [place EXCEPT ![x] = p]
    BY <1>12, <2>1 DEF Token!InitToken, Token!Go, Token!Verdict
  <2>3. Holding' = Holding /\ Owing' = Owing
    BY <2>1, <2>2, HoldingStays
  <2>4. read[x].version = 1 /\ (copy = Token!NoHash => read[x].quota = Token!Grant)
    BY <1>3, <2>1 DEF Orderly
  <2>5. ~(fence > clock)
    BY <1>0, <1>3
  <2>6. /\ copy'.version = 1 /\ copy'.until = clock + Token!HashTTL
        /\ copy'.quota = IF copy = Token!NoHash THEN Token!Grant ELSE copy.quota
    <3>1. CASE copy = Token!NoHash
      <4>1. copy' = Token!HashOf(read[x])
        BY <2>1, <2>5, <3>1 DEF Token!Published
      <4>2. read[x].quota = Token!Grant /\ read[x].version = 1
        BY <2>4, <3>1
      <4>3. /\ copy'.version = read[x].version /\ copy'.quota = read[x].quota
            /\ copy'.until = clock + Token!HashTTL
        BY <1>0, <4>1, HashOfIs
      <4> QED
        BY <3>1, <4>2, <4>3
    <3>2. CASE copy # Token!NoHash
      <4>1. copy' = [copy EXCEPT !.until = clock + Token!HashTTL]
        BY <2>1, <2>5, <3>2 DEF Token!Published
      <4> QED
        BY <1>0, <1>7, <3>2, <4>1, HashProlonged
    <3> QED
      BY <3>1, <3>2
  <2>7. copy'.quota >= 0 /\ copy'.quota + Owing' = row.quota
    <3>1. CASE copy = Token!NoHash
      <4>1. Owing = 0
        <5>1. Holding = {}
          BY <1>7, <3>1
        <5>2. Cardinality(Holding) = 0
          BY <5>1, FS_EmptySet
        <5> QED
          BY <1>0, <5>2 DEF Owing
      <4> QED
        BY <1>0, <1>3, <1>7, <2>3, <2>6, <3>1, <4>1
    <3>2. CASE copy # Token!NoHash
      BY <1>7, <2>3, <2>6, <3>2
    <3> QED
      BY <3>1, <3>2
  <2>8. Covered'
    BY <1>0, <1>1, <2>1, <2>6, <2>7 DEF Covered
  <2>9. copy' # Token!NoHash
    BY <2>6, NoHashIs
  <2>10. Orderly(x)'
    BY <2>2, <2>9 DEF Orderly, TokenTyped
  <2> QED
    BY <1>3, <1>6, <2>1, <2>8, <2>9, <2>10
<1>13. CASE Token!ReserveInCache(x)
  <2>1. UNCHANGED <<row, spent>> /\ place[x] = "reserve" /\ copy # Token!NoHash
    BY <1>3, <1>13 DEF Token!ReserveInCache, Orderly
  <2>2. CASE /\ Token!Enough(copy.quota) /\ copy' = [copy EXCEPT !.quota = @ - Cost]
             /\ place' = [place EXCEPT ![x] = "persist"]
    <3>1. Owing' = Owing + Cost
      BY <2>1, <2>2, HoldingStarts
    <3>2. copy' = [copy EXCEPT !.quota = copy.quota - Cost] /\ copy.quota - Cost \in Int
      BY <1>0, <2>2
    <3>3. /\ copy'.version = 1 /\ copy'.until = copy.until
          /\ copy'.quota = copy.quota - Cost
      BY <1>0, <1>7, <2>1, <3>2, HashCharged
    <3>4. Covered'
      BY <1>0, <1>1, <1>7, <2>1, <2>2, <3>1, <3>3 DEF Covered, Token!Enough
    <3>5. copy' # Token!NoHash
      BY <3>3, NoHashIs
    <3>6. Orderly(x)'
      BY <2>2 DEF Orderly, TokenTyped
    <3> QED
      BY <1>3, <1>6, <2>1, <3>4, <3>5, <3>6
  <2>3. CASE copy' = copy /\ place' = [place EXCEPT ![x] = "refused"]
    <3>1. Holding' = Holding /\ Owing' = Owing
      BY <2>1, <2>3, HoldingStays
    <3>2. Covered'
      BY <1>1, <1>3, <2>1, <2>3, <3>1 DEF Covered
    <3>3. Orderly(x)'
      BY <2>3 DEF Orderly, TokenTyped
    <3> QED
      BY <1>3, <1>6, <2>1, <2>3, <3>2, <3>3
  <2> QED
    BY <1>2, <1>13, <2>1, <2>2, <2>3 DEF Token!ReserveInCache, Token!Go
<1>14. CASE Token!Persist(x)
  <2>1. copy' = copy /\ place[x] = "persist"
    BY <1>14 DEF Token!Persist
  <2>2. copy # Token!NoHash
    BY <1>7, <2>1 DEF Holding
  <2>3. CASE Token!Charged /\ place' = [place EXCEPT ![x] = "charged"]
    <3>1. Owing' = Owing - Cost
      BY <2>1, <2>3, HoldingStops
    <3>2. row' = [row EXCEPT !.quota = row.quota - Cost] /\ spent' = spent + Cost
          /\ row.quota - Cost \in Int
      BY <1>0, <2>3 DEF Token!Charged
    <3>3. /\ row'.version = 1 /\ row'.gone = FALSE /\ row'.quota = row.quota - Cost
      BY <1>0, <1>3, <3>2, RowKept
    <3>4. Covered'
      BY <1>0, <1>1, <1>7, <2>1, <2>2, <3>1, <3>3 DEF Covered
    <3>5. Orderly(x)'
      BY <2>3 DEF Orderly, TokenTyped
    <3>6. row'.quota = Token!Grant - spent'
      BY <1>0, <1>3, <3>2, <3>3
    <3> QED
      BY <1>6, <2>1, <3>3, <3>4, <3>5, <3>6
  <2>4. CASE UNCHANGED <<row, spent>> /\ place' = [place EXCEPT ![x] = "compensate"]
    <3>1. Holding' = Holding /\ Owing' = Owing
      BY <2>1, <2>4, HoldingStays
    <3>2. Covered'
      BY <1>1, <1>3, <2>1, <2>4, <3>1 DEF Covered
    <3>3. Orderly(x)'
      BY <2>4 DEF Orderly, TokenTyped
    <3> QED
      BY <1>3, <1>6, <2>1, <2>4, <3>2, <3>3
  <2> QED
    BY <1>14, <2>3, <2>4 DEF Token!Persist, Token!Go
<1>15. CASE Token!Compensate(x)
  <2>1. /\ UNCHANGED <<row, spent>> /\ place[x] = "compensate"
        /\ copy' = Token!GivenBack /\ place' = [place EXCEPT ![x] = "refused"]
    BY <1>2, <1>15 DEF Token!Compensate, Token!Go
  <2>2. copy # Token!NoHash
    BY <1>7, <2>1 DEF Holding
  <2>3. copy' = [copy EXCEPT !.quota = copy.quota + Cost] /\ copy.quota + Cost \in Int
    BY <1>0, <2>1, <2>2 DEF Token!GivenBack
  <2>4. Owing' = Owing - Cost
    BY <2>1, HoldingStops
  <2>5. /\ copy'.version = 1 /\ copy'.until = copy.until
        /\ copy'.quota = copy.quota + Cost
    BY <1>0, <1>7, <2>2, <2>3, HashCharged
  <2>6. Covered'
    BY <1>0, <1>1, <1>7, <2>1, <2>2, <2>4, <2>5 DEF Covered
  <2>7. copy' # Token!NoHash
    BY <2>5, NoHashIs
  <2>8. Orderly(x)'
    BY <2>1 DEF Orderly, TokenTyped
  <2> QED
    BY <1>3, <1>6, <2>1, <2>6, <2>7, <2>8
<1> QED
  BY <1>4, <1>10, <1>11, <1>12, <1>13, <1>14, <1>15

\* Every step keeps it; the hash does not expire before the model's last instant.
LEMMA UsesStep ==
    ASSUME TokenTyped, TokenTyped', UsesInv, Token!Next \/ UNCHANGED tokenVars
    PROVE  UsesInv'
<1>0. CASE UNCHANGED tokenVars
  BY <1>0 DEF tokenVars, UsesInv, Token!OnlyUses, Token!Does, Token!LastTime,
     Token!HashTTL, Token!Grant, Uses, Covered, Holding, Owing, Orderly
<1>1. CASE Token!Next
  <2>0. /\ terms' = terms /\ (Token!OnlyUses' <=> Token!OnlyUses)
        /\ Token!LastTime' = Token!LastTime /\ Token!Grant' = Token!Grant
        /\ Token!LastTime \in Nat
    BY <1>1, TermsAre DEF Token!Next, TokenTyped, Token!OnlyUses, Token!Does,
       Token!LastTime, Token!HashTTL, Token!Grant
  <2> SUFFICES ASSUME Token!OnlyUses, Uses PROVE Uses'
    BY <2>0 DEF UsesInv
  <2>1. CASE Token!Tick
    <3>0. /\ clock \in Nat /\ copy.until \in Nat /\ clock < Token!LastTime
          /\ clock' = clock + 1
          /\ UNCHANGED <<row, place, read, spent, faults>>
          /\ copy' = IF copy.until <= clock + 1 THEN Token!NoHash ELSE copy
          /\ fence' = IF fence <= clock + 1 THEN 0 ELSE fence
      BY <2>1 DEF Token!Tick, TokenTyped, Hashes
    <3>1. copy' = copy
      <4>1. CASE copy = Token!NoHash
        BY <3>0, <4>1
      <4>2. CASE copy # Token!NoHash
        <5>1. copy.until > Token!LastTime
          BY <4>2, CoveredIs DEF Uses
        <5> QED
          BY <2>0, <3>0, <5>1
      <4> QED
        BY <4>1, <4>2
    <3>2. fence' = 0 /\ clock' <= Token!LastTime
      BY <2>0, <3>0 DEF Uses
    <3>3. Holding' = Holding /\ Owing' = Owing
      BY <3>0 DEF Holding, Owing
    <3>4. Covered'
      BY <2>0, <3>0, <3>1, <3>3 DEF Uses, Covered
    <3>5. \A x \in Procs : Orderly(x)'
      BY <2>0, <3>0, <3>1 DEF Uses, Orderly
    <3> QED
      BY <2>0, <3>0, <3>2, <3>4, <3>5 DEF Uses
  <2>2. ASSUME NEW x \in Procs, Token!Step(x) PROVE Uses'
    BY <2>0, <2>2, UsesOf
  <2> QED
    BY <1>1, <2>1, <2>2 DEF Token!Next
<1> QED
  BY <1>0, <1>1

LEMMA UsesInit == Token!Init => UsesInv
<1> SUFFICES ASSUME Token!Init, Token!OnlyUses PROVE Uses
  BY DEF UsesInv
<1>1. /\ terms \in TokenSettings /\ row = Token!Created /\ spent = 0 /\ clock = 0
      /\ fence = 0 /\ faults = [redis |-> terms.redis, db |-> terms.db]
      /\ terms.redis = 0 /\ Token!LastTime < Token!HashTTL
  BY DEF Token!Init, Token!OnlyUses
<1>2. Token!LastTime \in Nat /\ Token!HashTTL \in Nat /\ Token!Grant \in Nat
  BY <1>1, TermsAre
<1>3. /\ row.version = 1 /\ row.gone = FALSE /\ row.quota = Token!Grant
  BY <1>1, CreatedIs
<1>4. \A x \in Procs : place[x] = "start"
  BY DEF Token!Init
<1>5. Holding = {}
  BY <1>4 DEF Holding
<1>6. Owing = 0
  <2>1. Cardinality(Holding) = 0
    BY <1>5, FS_EmptySet
  <2> QED
    BY <2>1, TokenAssumption DEF Owing
<1>7. Covered
  <2>1. CASE copy = Token!NoHash
    BY <1>1, <1>5, <2>1 DEF Covered
  <2>2. CASE /\ copy.version = 1 /\ copy.quota = Token!Grant
             /\ copy.until = Token!HashTTL
    BY <1>1, <1>2, <1>3, <1>6, <2>2 DEF Covered
  <2> QED
    BY <2>1, <2>2, FirstHash
<1>8. \A x \in Procs : Orderly(x)
  BY <1>4 DEF Orderly
<1>9. faults.redis = 0 /\ clock <= Token!LastTime /\ row.quota = Token!Grant - spent
  BY <1>1, <1>2, <1>3
<1> QED
  BY <1>1, <1>3, <1>7, <1>8, <1>9 DEF Uses

\* What is charged is covered, and the hash has what is left.
LEMMA UsesAreCharged ==
    ASSUME TokenTyped, UsesInv
    PROVE  Token!SpentWithinGrant /\ Token!CopyAgrees
<1> SUFFICES ASSUME Token!OnlyUses, Uses
             PROVE  /\ spent <= Token!Grant
                    /\ (\A x \in Procs : place[x] \in Token!Ended \cup {"start"})
                       /\ copy # Token!NoHash => copy.quota = Token!Grant - spent
  BY DEF UsesInv, Token!SpentWithinGrant, Token!CopyAgrees
<1>0. /\ spent \in Int /\ Token!Grant \in Nat /\ Owing \in Nat /\ copy.quota \in Int
      /\ row.quota = Token!Grant - spent
  BY TermsAre, HoldingFinite DEF TokenTyped, Hashes, Uses
<1>1. /\ copy = Token!NoHash => spent = 0 /\ Holding = {}
      /\ copy # Token!NoHash => /\ copy.version = 1
                                /\ copy.until > Token!LastTime
                                /\ copy.quota >= 0
                                /\ copy.quota + Owing = row.quota
  BY CoveredIs DEF Uses
<1>2. spent <= Token!Grant
  BY <1>0, <1>1
<1>3. ASSUME \A x \in Procs : place[x] \in Token!Ended \cup {"start"},
             copy # Token!NoHash
      PROVE  copy.quota = Token!Grant - spent
  <2>1. Holding = {}
    BY <1>3 DEF Holding, Token!Ended
  <2>2. Owing = 0
    <3>1. Cardinality(Holding) = 0
      BY <2>1, FS_EmptySet
    <3> QED
      BY <3>1, TokenAssumption DEF Owing
  <2> QED
    BY <1>0, <1>1, <1>3, <2>2
<1> QED
  BY <1>2, <1>3

TokenInv == TokenTyped /\ OfRowInv /\ ReachedInv /\ UsesInv

\* The hash of a token in every behaviour of the run's specification, for every
\* number of requests, grant, cost, TTL and number of faults, when the fence
\* lasts more than twice as long as a step may be delayed: a use is judged by
\* the last reported change, the hash is the token as some change left it, and
\* the uses of a token that nobody changes stay within its grant.
THEOREM TokenSound == MCSpec => []TokenHashIsSound
<1>1. MCInit => TokenInv
  BY TokenTypedInit, OfRowInit, ReachedInit, UsesInit DEF MCInit, TokenInv
<1>2. TokenInv /\ [MCNext]_<<part, vars, tokenVars>> => TokenInv'
  <2> SUFFICES ASSUME TokenInv, [MCNext]_<<part, vars, tokenVars>>
               PROVE  TokenInv'
    OBVIOUS
  <2>1. Token!Next \/ UNCHANGED tokenVars
    BY DEF MCNext
  <2>2. TokenTyped'
    BY <2>1, TokenTypedStep DEF TokenInv
  <2>3. OfRowInv'
    BY <2>1, OfRowStep DEF TokenInv
  <2>4. ReachedInv'
    BY <2>1, <2>2, ReachedStep DEF TokenInv
  <2>5. UsesInv'
    BY <2>1, <2>2, UsesStep DEF TokenInv
  <2> QED
    BY <2>2, <2>3, <2>4, <2>5 DEF TokenInv
<1>3. TokenInv => TokenHashIsSound
  <2> SUFFICES ASSUME TokenInv PROVE TokenHashIsSound
    OBVIOUS
  <2>1. Token!ChangeIsSeen
    BY TokenNumbers DEF TokenInv, ReachedInv, Reached, Timely, Token!ChangeIsSeen
  <2>2. Token!HashIsOfTheRow
    BY DEF TokenInv, OfRowInv, OfRow, Token!HashIsOfTheRow
  <2> QED
    BY <2>1, <2>2, UsesAreCharged DEF TokenInv, TokenHashIsSound
<1> QED
  BY <1>1, <1>2, <1>3, PTL DEF MCSpec

=============================================================================
