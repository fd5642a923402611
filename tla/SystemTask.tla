----------------------------- MODULE SystemTask -----------------------------
(***************************************************************************)
(* The system-task runner: model/system_task.go and service/system_task.go.*)
(*                                                                         *)
(* Every master node runs a loop that creates due task rows, claims the    *)
(* pending one and runs its handler in a goroutine, and fails the tasks    *)
(* whose lease has expired.  The nodes meet only in two tables: the task   *)
(* rows (a unique active_key allows one active row per type) and one lock  *)
(* row per type, a lease with an expiry.  No operation is a transaction:   *)
(* each step below is one SQL statement, and steps of different nodes      *)
(* interleave.  Task types do not interact, so one type is modelled.       *)
(*                                                                         *)
(* Time is abstracted to one fact about the lock row: whether its          *)
(* locked_until has passed.  A live holder renews it (runWithLeaseHeartbeat*)
(* every third of the TTL), so it passes only when the holder is gone, or, *)
(* with Pauses, at any time: a process that is stopped, or whose clock is  *)
(* behind, for longer than the TTL.  Without Pauses a live node also        *)
(* finishes a claim or an expiry pass in a fraction of the TTL (see older).*)
(***************************************************************************)
EXTENDS Naturals, FiniteSets

CONSTANTS
    Runners,      \* master nodes, by runnerID
    NoRunner,     \* locked_by of a row nobody holds
    Stable,       \* the nodes that do not crash
    MaxTasks,     \* bound: task rows that are created
    FaultBudget,  \* bound: statements that fail with an error
    Pauses        \* may a live holder miss its renewals for a whole TTL?

Rows == 1 .. MaxTasks
NoRow == 0

\* What is assumed of the constants.
SystemTaskAssumption ==
    /\ NoRunner \notin Runners
    /\ Stable \subseteq Runners
    /\ MaxTasks \in Nat
    /\ FaultBudget \in Nat
    /\ Pauses \in BOOLEAN

VARIABLES
    status,   \* system_tasks.status of each row
    owner,    \* system_tasks.locked_by
    lock,     \* the system_task_locks row of the type
    pc,       \* the statement the loop of each node is at
    at,       \* the task the node is claiming
    seen,     \* the lock row the node read last
    older,    \* the nodes whose pass began before the holder's claim was over
    work,     \* the handler goroutine of each task
    up,       \* the nodes that are running
    faults,   \* failures left
    lost      \* history: tasks whose lease ended while they were running

vars == <<status, owner, lock, pc, at, seen, older, work, up, faults, lost>>

Statuses == {"absent", "pending", "running", "succeeded", "failed"}
Active == {"pending", "running"}     \* the statuses with an active_key
Terminal == {"succeeded", "failed"}

LockType == [task : Rows \cup {NoRow}, by : Runners \cup {NoRunner},
             fresh : BOOLEAN]
NoLock == [task |-> NoRow, by |-> NoRunner, fresh |-> FALSE]

\* The row acquireSystemTaskLock writes.
LockOf(t, r) == [task |-> t, by |-> r, fresh |-> TRUE]

ClaimLabels == {"takeover", "markOld", "cas", "reload", "giveUp"}
Labels == {"idle", "acquire", "expMark", "expDelete"} \cup ClaimLabels

Init ==
    /\ status = [t \in Rows |-> "absent"]
    /\ owner = [t \in Rows |-> NoRunner]
    /\ lock = NoLock
    /\ pc = [r \in Runners |-> "idle"]
    /\ at = [r \in Runners |-> NoRow]
    /\ seen = [r \in Runners |-> NoLock]
    /\ older = {}
    /\ work = [t \in Rows |-> "none"]
    /\ up = Runners
    /\ faults = FaultBudget
    /\ lost = {}

\* The loop of r goes on to another statement of the pass.
Go(r, label) == /\ pc' = [pc EXCEPT ![r] = label]
                /\ UNCHANGED <<at, seen, older>>

OthersBusy(r) == {q \in Runners \ {r} : pc[q] # "idle"}

\* The lock row is now (t, r), where t is the task r is claiming.
GoWithLock(r, label) ==
    /\ lock' = LockOf(at[r], r)
    /\ pc' = [pc EXCEPT ![r] = label]
    /\ older' = OthersBusy(r)
    /\ UNCHANGED <<at, seen>>

\* The pass ends.
Return(r) == /\ pc' = [pc EXCEPT ![r] = "idle"]
             /\ at' = [at EXCEPT ![r] = NoRow]
             /\ seen' = [seen EXCEPT ![r] = NoLock]
             /\ older' = older \ {r}

\* The statement fails with an error and changes no row.
Fault == faults > 0 /\ faults' = faults - 1

\* A bug this model can tell: any lock row counts as expired.
ExpiredAlways == lock # NoLock

\* The lock row exists and its locked_until < now.
Expired == lock # NoLock /\ ~lock.fresh

\* Does the holder recorded in the task row still hold an unexpired lease?
\* The EXISTS clause of UpdateSystemTaskState and FinishSystemTask.
HoldsLease(t) ==
    /\ status[t] = "running"
    /\ lock.task = t /\ lock.by = owner[t] /\ lock.fresh

-----------------------------------------------------------------------------
(* Creating tasks.                                                         *)

\* CreateSystemTask, by the scheduler of a node or by an administrator: the
\* unique active_key refuses a second active row.
Create(t) ==
    /\ status[t] = "absent"
    /\ \A u \in Rows : u < t => status[u] # "absent"
    /\ \A u \in Rows : status[u] \notin Active
    /\ status' = [status EXCEPT ![t] = "pending"]
    /\ UNCHANGED <<owner, lock, pc, at, seen, older, work, up, faults, lost>>

-----------------------------------------------------------------------------
(* Claiming: runSystemTaskClaimPass, ClaimSystemTask,                      *)
(* acquireSystemTaskLock.                                                  *)

\* A pending row is found.
ClaimScan(r) ==
    /\ pc[r] = "idle"
    /\ \E t \in Rows :
          /\ status[t] = "pending"
          /\ at' = [at EXCEPT ![r] = t]
    /\ pc' = [pc EXCEPT ![r] = "acquire"]
    /\ UNCHANGED <<status, owner, lock, seen, older, work, up, faults, lost>>

\* INSERT the lock row; if there is one already, read it: an expired one may be
\* taken over, another ends the claim.
Acquire(r) ==
    /\ pc[r] = "acquire"
    /\ \/ /\ lock = NoLock
          /\ GoWithLock(r, "cas")
          /\ UNCHANGED faults
       \/ /\ Expired
          /\ seen' = [seen EXCEPT ![r] = lock]
          /\ pc' = [pc EXCEPT ![r] = "takeover"]
          /\ UNCHANGED <<lock, at, older, faults>>
       \/ /\ \/ lock.fresh /\ UNCHANGED faults
             \/ Fault
          /\ Return(r)
          /\ UNCHANGED lock
    /\ UNCHANGED <<status, owner, work, up, lost>>

\* UPDATE the lock row if it is (still) expired.
Takeover(r) ==
    /\ pc[r] = "takeover"
    /\ \/ /\ Expired
          /\ GoWithLock(r, IF seen[r].task # at[r] THEN "markOld" ELSE "cas")
          /\ UNCHANGED faults
       \/ /\ \/ (lock = NoLock \/ lock.fresh) /\ UNCHANGED faults
             \/ Fault
          /\ Return(r)
          /\ UNCHANGED lock
    /\ UNCHANGED <<status, owner, work, up, lost>>

\* A bug this model can tell: the rows nobody has claimed are marked instead.
MarkLeaseExpiredPending(t) ==
    IF t \in Rows /\ status[t] = "pending"
    THEN status' = [status EXCEPT ![t] = "failed"]
    ELSE UNCHANGED status

\* MarkSystemTaskLeaseExpired(t): a running row becomes failed.
MarkLeaseExpired(t) ==
    IF t \in Rows /\ status[t] = "running"
    THEN status' = [status EXCEPT ![t] = "failed"]
    ELSE UNCHANGED status

\* The task the lock belonged to is failed before the new one starts.
MarkOld(r) ==
    /\ pc[r] = "markOld"
    /\ \/ MarkLeaseExpired(seen[r].task) /\ Go(r, "cas") /\ UNCHANGED faults
       \/ Fault /\ Go(r, "giveUp") /\ UNCHANGED status
    /\ UNCHANGED <<owner, lock, work, up, lost>>

\* UPDATE the task row from pending to running.
ClaimCAS(r) ==
    /\ pc[r] = "cas"
    /\ \/ /\ status[at[r]] = "pending"
          /\ status' = [status EXCEPT ![at[r]] = "running"]
          /\ owner' = [owner EXCEPT ![at[r]] = r]
          /\ lost' = IF lock = LockOf(at[r], r) THEN lost ELSE lost \cup {at[r]}
          /\ pc' = [pc EXCEPT ![r] = "reload"]
          /\ older' = OthersBusy(r)
          /\ UNCHANGED <<at, seen, faults>>
       \/ /\ \/ status[at[r]] # "pending" /\ UNCHANGED faults
             \/ Fault
          /\ Go(r, "giveUp")
          /\ UNCHANGED <<status, owner, lost>>
    /\ UNCHANGED <<lock, work, up>>

\* What DELETE ... WHERE task_id = t AND locked_by = r leaves of the lock row.
Released(t, r) == IF lock.task = t /\ lock.by = r THEN NoLock ELSE lock

\* ReleaseSystemTaskLock of a claim that failed.
GiveUp(r) ==
    /\ pc[r] = "giveUp"
    /\ Return(r)
    /\ \/ lock' = Released(at[r], r) /\ UNCHANGED faults
       \/ Fault /\ UNCHANGED lock
    /\ UNCHANGED <<status, owner, work, up, lost>>

\* The row is read again and its handler is started; an error here leaves the
\* row running with no handler.
Dispatch(r) ==
    /\ pc[r] = "reload"
    /\ Return(r)
    /\ \/ /\ work' = [work EXCEPT ![at[r]] = "run"]
          /\ UNCHANGED faults
       \/ Fault /\ UNCHANGED work
    /\ UNCHANGED <<status, owner, lock, up, lost>>

-----------------------------------------------------------------------------
(* ExpireStaleSystemTaskLocks: read the expired locks, then for each fail   *)
(* its task and delete it.                                                 *)

ExpireScan(r) ==
    /\ pc[r] = "idle"
    /\ Expired
    /\ seen' = [seen EXCEPT ![r] = lock]
    /\ pc' = [pc EXCEPT ![r] = "expMark"]
    /\ UNCHANGED <<status, owner, lock, at, older, work, up, faults, lost>>

ExpireMark(r) ==
    /\ pc[r] = "expMark"
    /\ \/ MarkLeaseExpired(seen[r].task) /\ Go(r, "expDelete") /\ UNCHANGED faults
       \/ Fault /\ Return(r) /\ UNCHANGED status
    /\ UNCHANGED <<owner, lock, work, up, lost>>

ExpireDelete(r) ==
    /\ pc[r] = "expDelete"
    /\ Return(r)
    /\ \/ /\ lock' = IF lock = seen[r] THEN NoLock ELSE lock
          /\ UNCHANGED faults
       \/ Fault /\ UNCHANGED lock
    /\ UNCHANGED <<status, owner, work, up, lost>>

-----------------------------------------------------------------------------
(* Running: runWithLeaseHeartbeat and the handler.                         *)

\* A renewal or a state update finds the lease gone: the context is cancelled
\* and the handler returns.
StopOnLostLease(t) ==
    /\ work[t] = "run"
    /\ ~HoldsLease(t)
    /\ work' = [work EXCEPT ![t] = "stopped"]
    /\ UNCHANGED <<status, owner, lock, pc, at, seen, older, up, faults, lost>>

\* A bug this model can tell: the terminal update does not look at the lock.
MayFinishUnfenced(t) == status[t] = "running"

\* The WHERE clause of FinishSystemTask.
MayFinish(t) == HoldsLease(t)

\* FinishSystemTask, first statement; an error or a lost lease ends the handler.
Finish(t, result) ==
    /\ work[t] = "run"
    /\ \/ /\ MayFinish(t)
          /\ status' = [status EXCEPT ![t] = result]
          /\ work' = [work EXCEPT ![t] = "release"]
          /\ UNCHANGED faults
       \/ /\ \/ ~MayFinish(t) /\ UNCHANGED faults
             \/ Fault
          /\ work' = [work EXCEPT ![t] = "stopped"]
          /\ UNCHANGED status
    /\ UNCHANGED <<owner, lock, pc, at, seen, older, up, lost>>

\* FinishSystemTask, second statement.
FinishRelease(t) ==
    /\ work[t] = "release"
    /\ work' = [work EXCEPT ![t] = "stopped"]
    /\ \/ lock' = Released(t, owner[t]) /\ UNCHANGED faults
       \/ Fault /\ UNCHANGED lock
    /\ UNCHANGED <<status, owner, pc, at, seen, older, up, lost>>

-----------------------------------------------------------------------------
(* The environment.                                                        *)

\* Someone is about to use or is renewing the lock row.
HolderAlive ==
    /\ lock.by \in up
    /\ \/ pc[lock.by] \in ClaimLabels /\ at[lock.by] = lock.task
       \/ work[lock.task] \in {"run", "release"} /\ owner[lock.task] = lock.by

\* The lease runs out with nobody having been late: its holder is gone, and the
\* passes that began before its claim was over have ended.
InTime == ~HolderAlive /\ older \cap up = {}

\* locked_until passes.
LeaseTimesOut ==
    /\ lock.fresh
    /\ Pauses \/ InTime
    /\ lock' = [lock EXCEPT !.fresh = FALSE]
    /\ lost' = IF HoldsLease(lock.task) THEN lost \cup {lock.task} ELSE lost
    /\ UNCHANGED <<status, owner, pc, at, seen, older, work, up, faults>>

\* A node stops, with its loop and its handlers.  It comes back, if at all, with
\* another runnerID, as another element of Runners.
Crash(r) ==
    /\ r \in up \ Stable
    /\ up' = up \ {r}
    /\ work' = [t \in Rows |-> IF owner[t] = r /\ work[t] # "none"
                               THEN "stopped" ELSE work[t]]
    /\ UNCHANGED <<status, owner, lock, pc, at, seen, older, faults, lost>>

Loop(r) ==
    /\ r \in up
    /\ \/ ClaimScan(r) \/ Acquire(r) \/ Takeover(r) \/ MarkOld(r)
       \/ ClaimCAS(r) \/ GiveUp(r) \/ Dispatch(r)
       \/ ExpireScan(r) \/ ExpireMark(r) \/ ExpireDelete(r)

Handler(t) ==
    \/ StopOnLostLease(t)
    \/ \E result \in Terminal : Finish(t, result)
    \/ FinishRelease(t)

Next ==
    \/ \E t \in Rows : Create(t) \/ Handler(t)
    \/ \E r \in Runners : Loop(r) \/ Crash(r)
    \/ LeaseTimesOut

\* The loop of a node wakes every 15 seconds and takes its statements in turn, a
\* handler goroutine keeps running, and a lease nobody renews runs out.
Fairness ==
    /\ \A r \in Runners : WF_vars(Loop(r))
    /\ \A t \in Rows : WF_vars(Handler(t))
    /\ WF_vars(InTime /\ LeaseTimesOut)

Spec == Init /\ [][Next]_vars /\ Fairness

-----------------------------------------------------------------------------
(* Properties.                                                             *)

\* Rows, the lock, the loops and the goroutines have their types.
TypeOK ==
    /\ status \in [Rows -> Statuses]
    /\ owner \in [Rows -> Runners \cup {NoRunner}]
    /\ lock \in LockType
    /\ pc \in [Runners -> Labels]
    /\ at \in [Runners -> Rows \cup {NoRow}]
    /\ seen \in [Runners -> LockType]
    /\ older \subseteq Runners
    /\ work \in [Rows -> {"none", "run", "release", "stopped"}]
    /\ up \subseteq Runners
    /\ faults \in 0 .. FaultBudget
    /\ lost \subseteq Rows

\* The lease fences the result: a task whose lease ran out, was taken over or
\* was released by someone else while it was running never ends as succeeded,
\* even though its handler may go on for a while (FinishSystemTask).
LostLeaseNeverSucceeds == \A t \in lost : status[t] # "succeeded"

\* "the per-type lock guarantees only one runner executes the task"
\* (runSystemTaskScheduler), for the type as a whole: when holders renew in
\* time, no two handlers of the type run at once, across crashes and takeovers.
OneHandlerAtATime ==
    Cardinality({t \in Rows : work[t] = "run"}) <= 1

\* Every task that was created comes to an end, whichever node crashes and at
\* whichever statement, so that the next one of its type can be created.
EveryTaskEnds ==
    \A t \in Rows : (status[t] \in Active) ~> (status[t] \in Terminal)

=============================================================================
