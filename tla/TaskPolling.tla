---------------------------- MODULE TaskPolling ----------------------------
(***************************************************************************)
(* Asynchronous tasks (video, music): their rows, the pollers that move    *)
(* them to an end, and what their ends do to the user's money.             *)
(* controller/relay.go, service/task_polling.go, service/task_billing.go,  *)
(* model/task.go.                                                          *)
(*                                                                         *)
(* A submitted task is paid for when its row is inserted.  A polling pass  *)
(* reads rows, asks the upstream about each, and writes the whole row back *)
(* on condition that its status is still the one that was read; whoever    *)
(* makes a row terminal settles or refunds it, in several statements.      *)
(* Passes overlap: the lease of the async_task_poll system task may be     *)
(* lost while its handler is still running (module SystemTask).  Module    *)
(* TaskRealtime adds the clients that write rows too.                      *)
(*                                                                         *)
(* A worker below is one pass at work on one row: a pass handles the rows  *)
(* of different channels concurrently and no step involves two rows, so a  *)
(* pass over many rows is many workers.  Used-quota statistics and logs    *)
(* are left out.                                                           *)
(***************************************************************************)
EXTENDS Integers, FiniteSets

CONSTANTS
    Tasks,          \* task rows
    NoTask,         \* the task of an idle worker
    Pollers,        \* workers of polling passes
    Clients,        \* other workers that write rows (module TaskRealtime)
    MaxQuota,       \* bound: the dearest task
    MaxFails,       \* TASK_POLL_MAX_FAILURES, 0 for none
    ChannelsVanish, \* may a channel be deleted before its tasks have ended?
    FullEarly,      \* may an adaptor report "100%" for an unfinished task?
    FaultBudget,    \* bound: statements and calls that fail
    CrashBudget     \* bound: workers that die

Workers == Pollers \cup Clients
Quotas == 0 .. MaxQuota

ASSUME TaskPollingAssumption ==
    /\ Pollers \cap Clients = {}
    /\ NoTask \notin Tasks
    /\ MaxQuota \in Nat
    /\ MaxFails \in Nat
    /\ FaultBudget \in Nat
    /\ CrashBudget \in Nat
    /\ ChannelsVanish \in BOOLEAN
    /\ FullEarly \in BOOLEAN

VARIABLES
    row,       \* the tasks table
    paid,      \* what the funding source has given for each task, net
    token,     \* what the token's quota has given for each task, net
    owing,     \* what the submission has still to settle (or failed to)
    upstream,  \* the job at the upstream
    pc,        \* the statement each worker is at
    at,        \* the task each worker is on
    copy,      \* its copy of the row
    from,      \* the status that copy had when it was read
    due,       \* the quota the task ends with
    faults,    \* failures left
    crashes,   \* crashes left
    cut,       \* history: tasks whose billing was cut short by an error or a crash
    bulk       \* history: tasks failed with TaskBulkUpdateByID

vars == <<row, paid, token, owing, upstream, pc, at, copy, from, due, faults,
          crashes, cut, bulk>>
money == <<paid, token, owing>>
worker == <<pc, at, copy, from, due>>

\* QUEUED and SUBMITTED are handled as IN_PROGRESS is.
Open == {"NOT_START", "IN_PROGRESS", "UNKNOWN"}
Terminal == {"SUCCESS", "FAILURE"}

\* How a task is billed when it ends: by its tiered snapshot, at a fixed price,
\* by reported usage; a legacy task predates refunds on timeout.
Kinds == {"tiered", "perCall", "usage", "legacy"}

\* full: progress = "100%".  fails: PrivateData.PollFailures.
RowType == [status : Open \cup Terminal \cup {"absent"}, quota : Quotas,
            fails : 0 .. MaxFails, full : BOOLEAN, kind : Kinds]
NoRow == [status |-> "absent", quota |-> 0, fails |-> 0, full |-> FALSE,
          kind |-> "perCall"]

Billing == {"settle", "funding", "token", "quota"}
Labels == {"idle", "ask", "write", "sweep"} \cup Billing

Init ==
    /\ row = [t \in Tasks |-> NoRow]
    /\ paid = [t \in Tasks |-> 0]
    /\ token = [t \in Tasks |-> 0]
    /\ owing = [t \in Tasks |-> 0]
    /\ upstream = [t \in Tasks |-> "running"]
    /\ pc = [w \in Workers |-> "idle"]
    /\ at = [w \in Workers |-> NoTask]
    /\ copy = [w \in Workers |-> NoRow]
    /\ from = [w \in Workers |-> "absent"]
    /\ due = [w \in Workers |-> 0]
    /\ faults = FaultBudget
    /\ crashes = CrashBudget
    /\ cut = {}
    /\ bulk = {}

Fault == faults > 0 /\ faults' = faults - 1

-----------------------------------------------------------------------------
(* Submission: executeTaskSubmissionWith, from the durable insert on.  The *)
(* session has reserved at least the final quota by then (Reserve) and is  *)
(* settled to it afterwards; the row is visible to the pollers in between. *)

NewRow(status, q, kind) ==
    [status |-> status, quota |-> q, fails |-> 0,
     full |-> status \in Terminal, kind |-> kind]

Insert(t) ==
    /\ row[t].status = "absent"
    /\ \E q, reserved \in Quotas, kind \in Kinds,
          status \in {"NOT_START", "SUCCESS", "FAILURE"} :
          /\ q <= reserved
          /\ status = "FAILURE" => q = 0   \* failed at once: nothing is charged
          /\ row' = [row EXCEPT ![t] = NewRow(status, q, kind)]
          /\ paid' = [paid EXCEPT ![t] = reserved]
          /\ token' = [token EXCEPT ![t] = reserved]
          /\ owing' = [owing EXCEPT ![t] = q - reserved]
    /\ UNCHANGED <<upstream, worker, faults, crashes, cut, bulk>>

\* SettleBilling after the insert.  That it may fail, or never run, is in the
\* steps it does not take: owing then keeps what is missing.
Settle(t) ==
    /\ owing[t] # 0
    /\ paid' = [paid EXCEPT ![t] = @ + owing[t]]
    /\ token' = [token EXCEPT ![t] = @ + owing[t]]
    /\ owing' = [owing EXCEPT ![t] = 0]
    /\ UNCHANGED <<row, upstream, worker, faults, crashes, cut, bulk>>

-----------------------------------------------------------------------------
(* Reading rows.                                                           *)

\* The WHERE clause of GetAllUnFinishSyncTasks and GetTimedOutUnfinishedTasks.
Unfinished(t) == row[t].status \in Open /\ ~row[t].full

Take(w, t, label) ==
    /\ pc' = [pc EXCEPT ![w] = label]
    /\ at' = [at EXCEPT ![w] = t]
    /\ from' = [from EXCEPT ![w] = row[t].status]
    /\ UNCHANGED due

Drop(w) ==
    /\ pc' = [pc EXCEPT ![w] = "idle"]
    /\ at' = [at EXCEPT ![w] = NoTask]
    /\ copy' = [copy EXCEPT ![w] = NoRow]
    /\ from' = [from EXCEPT ![w] = "absent"]
    /\ due' = [due EXCEPT ![w] = 0]

\* RunTaskPollingOnce: the row is read into taskM.
Poll(w, t) ==
    /\ w \in Pollers
    /\ pc[w] = "idle"
    /\ Unfinished(t)
    /\ Take(w, t, "ask")
    /\ copy' = [copy EXCEPT ![w] = row[t]]
    /\ UNCHANGED <<row, money, upstream, faults, crashes, cut, bulk>>

Ended(c, status) == [c EXCEPT !.status = status, !.full = TRUE]

\* A bug this model can tell: the status of a row that timed out is not changed.
SweptStaysOpen(c) == [c EXCEPT !.full = TRUE]

\* The row of a task that timed out; the quota of a legacy one is dropped.
Swept(c) ==
    IF c.kind = "legacy" THEN [Ended(c, "FAILURE") EXCEPT !.quota = 0]
                         ELSE Ended(c, "FAILURE")

\* sweepTimedOutTasks: TASK_TIMEOUT_MINUTES after it was submitted, a row is to
\* be failed.
Sweep(w, t) ==
    /\ w \in Pollers
    /\ pc[w] = "idle"
    /\ Unfinished(t)
    /\ Take(w, t, "sweep")
    /\ copy' = [copy EXCEPT ![w] = Swept(row[t])]
    /\ UNCHANGED <<row, money, upstream, faults, crashes, cut, bulk>>

-----------------------------------------------------------------------------
(* The upstream and its answers.                                           *)

UpstreamEnds(t) ==
    /\ row[t].status # "absent"
    /\ upstream[t] = "running"
    /\ \E result \in {"done", "failed"} :
          upstream' = [upstream EXCEPT ![t] = result]
    /\ UNCHANGED <<row, money, worker, faults, crashes, cut, bulk>>

\* recordPollFailure: one more failed poll in a row, and perhaps the last.
PollFailed(c) ==
    LET n == c.fails + 1
    IN  IF MaxFails > 0 /\ n >= MaxFails
        THEN [Ended(c, "FAILURE") EXCEPT !.fails = MaxFails]
        ELSE [c EXCEPT !.fails = IF MaxFails > 0 THEN n ELSE 0]

\* What updateVideoSingleTask and updateBatchTasks make of an answer of a job
\* that is still running.
Running(c, s, f) == [c EXCEPT !.status = s, !.fails = 0, !.full = f]

StillRunning(c) ==
    LET polled == {"NOT_START", "IN_PROGRESS"}
    IN  {Running(c, s, FALSE) : s \in polled} \cup
        (IF FullEarly THEN {Running(c, s, TRUE) : s \in polled} ELSE {})

\* The rows an answer about t can lead to, in a poller.
Answers(t, c) ==
    CASE upstream[t] = "running" -> StillRunning(c)
      [] upstream[t] = "done"    -> {Ended(c, "SUCCESS")}
      [] upstream[t] = "failed"  -> {Ended(c, "FAILURE")}

\* The answer arrives: a status; HTTP 404 or 410 (failTaskFromPoll); a transport,
\* authentication or parse failure (recordPollFailure).
Answer(w) ==
    /\ w \in Pollers
    /\ pc[w] = "ask"
    /\ \/ /\ \E c \in Answers(at[w], copy[w]) : copy' = [copy EXCEPT ![w] = c]
          /\ UNCHANGED faults
       \/ /\ Fault
          /\ \E c \in {PollFailed(copy[w]), Ended(copy[w], "FAILURE")} :
                copy' = [copy EXCEPT ![w] = c]
    /\ pc' = [pc EXCEPT ![w] = "write"]
    /\ UNCHANGED <<row, money, upstream, at, from, due, crashes, cut, bulk>>

\* The pass is cancelled (its lease is lost), or a batch answer lacks the task.
Abandon(w) ==
    /\ w \in Pollers
    /\ pc[w] = "ask"
    /\ Fault
    /\ Drop(w)
    /\ UNCHANGED <<row, money, upstream, crashes, cut, bulk>>

\* CacheGetChannel fails: TaskBulkUpdateByID fails the row, whatever it holds by
\* now.  (A row without an upstream id meets the same statement.)
BulkFail(w) ==
    /\ ChannelsVanish
    /\ w \in Pollers
    /\ pc[w] = "ask"
    /\ row' = [row EXCEPT ![at[w]] = Ended(@, "FAILURE")]
    /\ bulk' = bulk \cup {at[w]}
    /\ Drop(w)
    /\ UNCHANGED <<money, upstream, faults, crashes, cut>>

-----------------------------------------------------------------------------
(* Writing the row back: Task.UpdateWithStatus.                            *)

\* A bug this model can tell: the row is written whatever its status is.
WinsAlways(w) == TRUE

\* WHERE status = fromStatus
Wins(w) == row[at[w]].status = from[w]

\* The write is lost to another one, or fails.
Loses(w) ==
    /\ \/ ~Wins(w) /\ UNCHANGED faults
       \/ Fault
    /\ Drop(w)
    /\ UNCHANGED row

GoBill(w, label) ==
    /\ pc' = [pc EXCEPT ![w] = label]
    /\ UNCHANGED <<at, copy, from, due>>

\* A poller that wins a terminal transition bills it; a client never does.
BillsOnWin(w) ==
    /\ w \in Pollers
    /\ copy[w].status \in Terminal
    /\ copy[w].status # from[w]

Write(w) ==
    /\ pc[w] = "write"
    /\ \/ /\ Wins(w)
          /\ row' = [row EXCEPT ![at[w]] = copy[w]]
          /\ IF BillsOnWin(w) THEN GoBill(w, "settle") ELSE Drop(w)
          /\ UNCHANGED faults
       \/ Loses(w)
    /\ UNCHANGED <<money, upstream, crashes, cut, bulk>>

\* The sweep looks at no usage: it refunds what the row still holds.
SweepWrite(w) ==
    /\ pc[w] = "sweep"
    /\ \/ /\ Wins(w)
          /\ row' = [row EXCEPT ![at[w]] = copy[w]]
          /\ IF copy[w].quota # 0 THEN GoBill(w, "funding") ELSE Drop(w)
          /\ UNCHANGED faults
       \/ Loses(w)
    /\ UNCHANGED <<money, upstream, crashes, cut, bulk>>

-----------------------------------------------------------------------------
(* Billing a task that has ended.                                          *)

\* settleTaskBillingOnComplete: the quotas that usage may lead to; none when the
\* usage path does not take the final charge over.  A tiered expression that
\* fails to evaluate keeps the quota; a failed poll carries no usage, but the
\* adaptor may still name a price.
Usage(c) ==
    CASE c.kind = "tiered" -> IF c.status = "SUCCESS" THEN Quotas ELSE {}
      [] c.kind = "usage"  -> Quotas
      [] OTHER             -> {}

\* A bug this model can tell: a task that failed is treated like one that did not.
FinalQuotasKept(c) == IF Usage(c) = {} THEN {c.quota} ELSE Usage(c)

\* The quotas a task may end with: settled by usage or, when it is not, refunded
\* in full if it failed and kept if it did not.
FinalQuotas(c) ==
    Usage(c) \cup (IF c.kind = "tiered" /\ c.status = "SUCCESS" THEN {}
                   ELSE {IF c.status = "FAILURE" THEN 0 ELSE c.quota})

Bill(w) ==
    /\ pc[w] = "settle"
    /\ \E q \in FinalQuotas(copy[w]) :
          IF q = copy[w].quota
          THEN Drop(w)
          ELSE /\ due' = [due EXCEPT ![w] = q]
               /\ pc' = [pc EXCEPT ![w] = "funding"]
               /\ UNCHANGED <<at, copy, from>>
    /\ UNCHANGED <<row, money, upstream, faults, crashes, cut, bulk>>

\* RefundTaskQuota and RecalculateTaskQuota move the difference in this order:
\* taskAdjustFunding, whose failure ends it; taskAdjustTokenQuota, whose failure
\* is only logged; UpdateQuota.
Change(w) == due[w] - copy[w].quota

CutShort(w) == cut' = cut \cup {at[w]}

AdjustFunding(w) ==
    /\ pc[w] = "funding"
    /\ \/ /\ paid' = [paid EXCEPT ![at[w]] = @ + Change(w)]
          /\ pc' = [pc EXCEPT ![w] = "token"]
          /\ UNCHANGED <<at, copy, from, due, faults, cut>>
       \/ Fault /\ CutShort(w) /\ Drop(w) /\ UNCHANGED paid
    /\ UNCHANGED <<row, token, owing, upstream, crashes, bulk>>

AdjustToken(w) ==
    /\ pc[w] = "token"
    /\ \/ /\ token' = [token EXCEPT ![at[w]] = @ + Change(w)]
          /\ UNCHANGED <<faults, cut>>
       \/ Fault /\ CutShort(w) /\ UNCHANGED token
    /\ pc' = [pc EXCEPT ![w] = "quota"]
    /\ UNCHANGED <<row, paid, owing, upstream, at, copy, from, due, crashes, bulk>>

UpdateQuota(w) ==
    /\ pc[w] = "quota"
    /\ \/ /\ row' = [row EXCEPT ![at[w]].quota = due[w]]
          /\ UNCHANGED <<faults, cut>>
       \/ Fault /\ CutShort(w) /\ UNCHANGED row
    /\ Drop(w)
    /\ UNCHANGED <<money, upstream, crashes, bulk>>

\* The process of a worker dies.
Crash(w) ==
    /\ pc[w] # "idle"
    /\ crashes > 0
    /\ crashes' = crashes - 1
    /\ cut' = IF pc[w] \in Billing THEN cut \cup {at[w]} ELSE cut
    /\ Drop(w)
    /\ UNCHANGED <<row, money, upstream, faults, bulk>>

Step(w) ==
    \/ \E t \in Tasks : Poll(w, t)
    \/ Answer(w) \/ Write(w) \/ SweepWrite(w) \/ Bill(w)
    \/ AdjustFunding(w) \/ AdjustToken(w) \/ UpdateQuota(w)

SweepAny(w) == \E t \in Tasks : Sweep(w, t)

Next ==
    \/ \E t \in Tasks : Insert(t) \/ Settle(t) \/ UpstreamEnds(t)
    \/ \E w \in Workers :
          Step(w) \/ SweepAny(w) \/ Abandon(w) \/ BulkFail(w) \/ Crash(w)

\* A pass is due every 15 seconds and a crashed poller is replaced by the next
\* holder of the lease; every pass starts with a sweep.  Nothing is assumed of
\* the upstream or of the submitting request.
Fairness ==
    \A w \in Pollers : WF_vars(Step(w)) /\ SF_vars(SweepAny(w))

Spec == Init /\ [][Next]_vars /\ Fairness

-----------------------------------------------------------------------------
(* Properties.                                                             *)

\* The table, the accounts and the workers have their types.
TypeOK ==
    /\ row \in [Tasks -> RowType]
    /\ paid \in [Tasks -> Int]
    /\ token \in [Tasks -> Int]
    /\ owing \in [Tasks -> Int]
    /\ upstream \in [Tasks -> {"running", "done", "failed"}]
    /\ pc \in [Workers -> Labels]
    /\ at \in [Workers -> Tasks \cup {NoTask}]
    /\ copy \in [Workers -> RowType]
    /\ from \in [Workers -> Open \cup Terminal \cup {"absent"}]
    /\ due \in [Workers -> Quotas]
    /\ faults \in 0 .. FaultBudget
    /\ crashes \in 0 .. CrashBudget
    /\ cut \subseteq Tasks
    /\ bulk \subseteq Tasks

\* The charge of t, with what its submission has still to settle.
Charge(t) == paid[t] + owing[t]

BeingBilled(t) == \E w \in Workers : at[w] = t /\ pc[w] \in Billing

\* The sweep of a legacy task drops the quota and keeps the money on purpose.
Legacy(t) == row[t].kind = "legacy"

\* The tasks whose failure is never billed.
RefundedInFull(t) == row[t].kind \in {"tiered", "perCall"}

\* The quota column tells what was charged: once a task is not being billed, and
\* no error or crash cut its billing short, its funding source and its token have
\* given exactly row.quota, whichever stale copies overlapping passes have
\* written over the row (UpdateWithStatus writes every column).
ChargeIsOnRecord ==
    \A t \in Tasks :
        ~BeingBilled(t) /\ t \notin cut /\ ~Legacy(t)
            => /\ Charge(t) = row[t].quota
               /\ token[t] + owing[t] = row[t].quota

\* No overlap of passes, error or crash refunds a task beyond what it was charged.
NeverOverRefunded == \A t \in Tasks : Charge(t) >= 0

\* "资金退款完成后再清除持久化标记" (RefundTaskQuota: the mark is cleared after the
\* refund): a task that a pass failed, and whose quota reads 0, owes its user
\* nothing, through every error and crash; a refund that was cut short stays
\* visible in its quota.
ClearedMeansRefunded ==
    \A t \in Tasks \ bulk :
        row[t].status = "FAILURE" /\ row[t].quota = 0 /\ RefundedInFull(t)
            => Charge(t) = 0

HasItsMoneyBack(t) ==
    /\ row[t].status = "FAILURE"
    /\ RefundedInFull(t)
    /\ ~BeingBilled(t)
    /\ t \notin cut
    => Charge(t) = 0

\* A task that a pass failed (sweepTimedOutTasks, failTaskFromPoll, an upstream
\* failure) has its money back, unless its refund was cut short.
FailedByPassIsRefunded == \A t \in Tasks \ bulk : HasItsMoneyBack(t)

\* "当异步任务失败时，退还资金与令牌额度" (RefundTaskQuota: when an asynchronous task
\* fails, its funds are returned), for every task that failed.
FailedIsRefunded == \A t \in Tasks : HasItsMoneyBack(t)

\* The end of a task is final: no stale copy of a pass reopens it or turns one end
\* into the other.  Only TaskBulkUpdateByID does.
EndIsFinal ==
    [][\A t \in Tasks : row[t].status \in Terminal /\ t \notin bulk'
                            => row'[t].status = row[t].status]_vars

\* "The 24h TASK_TIMEOUT_MINUTES sweep remains the outer deadline"
\* (docs/plugin-api/v1.md): every task ends, even if its upstream never does and
\* the pollers crash.
EveryTaskEnds ==
    \A t \in Tasks : (row[t].status \in Open) ~> (row[t].status \in Terminal)

=============================================================================
