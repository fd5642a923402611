------------------------- MODULE TaskPollingProofs -------------------------
(***************************************************************************)
(* Proofs about the passes that poll tasks (TaskPolling, Midjourney), for  *)
(* any set of tasks, any number of overlapping passes and any prices; and  *)
(* about the runner that starts them (SystemTask).                         *)
(***************************************************************************)
EXTENDS MCTasks, FiniteSetTheorems, TLAPS

-----------------------------------------------------------------------------
(* The inductive invariant.                                                *)

Reading == {"ask", "write", "sweep"}

\* A worker between its read and its write: it read an open row, and as long as
\* the row is open its quota is the one that was read, since quotas change only
\* after the end.  Only a legacy sweep leaves it out.
ReadingOK(w) ==
    /\ w \in Pollers
    /\ at[w] \in Tasks
    /\ from[w] \in Open
    /\ due[w] = 0
    /\ row[at[w]].status # "absent"
    /\ copy[w].status # "absent"
    /\ copy[w].kind = row[at[w]].kind
    /\ pc[w] = "sweep" => copy[w].status = "FAILURE"
    /\ row[at[w]].status \in Open =>
          \/ copy[w].quota = row[at[w]].quota
          \/ pc[w] = "sweep" /\ copy[w].kind = "legacy" /\ copy[w].quota = 0

\* A worker that bills: the row has ended, with the quota the worker knows.
BillingOK(w) ==
    /\ w \in Pollers
    /\ at[w] \in Tasks
    /\ row[at[w]].status \in Terminal
    /\ row[at[w]].quota = copy[w].quota
    /\ row[at[w]].kind = copy[w].kind
    /\ at[w] \notin bulk => row[at[w]].status = copy[w].status
    /\ copy[w].status \in Terminal

\* How far the money has moved at each statement of the billing.
MoneyOK(w) ==
    /\ pc[w] = "settle" => due[w] = 0
    /\ pc[w] \in {"settle", "funding"} =>
          /\ paid[at[w]] + owing[at[w]] = copy[w].quota
          /\ token[at[w]] + owing[at[w]] = copy[w].quota
          /\ at[w] \notin cut
    /\ pc[w] = "token" =>
          /\ paid[at[w]] + owing[at[w]] = due[w]
          /\ token[at[w]] + owing[at[w]] = copy[w].quota
          /\ at[w] \notin cut
    /\ pc[w] = "quota" =>
          /\ paid[at[w]] + owing[at[w]] = due[w]
          /\ at[w] \notin cut => token[at[w]] + owing[at[w]] = due[w]
    /\ copy[w].status = "FAILURE" /\ copy[w].kind \in {"tiered", "perCall"}
          => due[w] = 0

WorkerOK(w) ==
    /\ pc[w] = "idle" => due[w] = 0
    /\ pc[w] \in Reading => ReadingOK(w)
    /\ pc[w] \in Billing => BillingOK(w) /\ MoneyOK(w)

\* One worker bills a task.
OneBills ==
    \A v, w \in Workers :
        pc[v] \in Billing /\ pc[w] \in Billing /\ at[v] = at[w] => v = w

\* A task that has not ended has been charged its quota.
OpenOK(t) ==
    row[t].status \notin Terminal =>
        /\ paid[t] + owing[t] = row[t].quota
        /\ token[t] + owing[t] = row[t].quota
        /\ t \notin cut

RecordOK(t) ==
    ~BeingBilled(t) /\ t \notin cut /\ ~Legacy(t)
        => Charge(t) = row[t].quota /\ token[t] + owing[t] = row[t].quota

ClearedOK(t) ==
    row[t].status = "FAILURE" /\ row[t].quota = 0 /\ RefundedInFull(t)
        => Charge(t) = 0

TaskOK(t) ==
    /\ OpenOK(t)
    /\ Charge(t) >= 0
    /\ RecordOK(t)
    /\ t \notin bulk => ClearedOK(t) /\ HasItsMoneyBack(t)

IInv ==
    /\ TypeOK
    /\ \A w \in Workers : WorkerOK(w)
    /\ OneBills
    /\ \A t \in Tasks : TaskOK(t)

-----------------------------------------------------------------------------
(* What the operators on rows return.                                      *)

LEMMA EndedRow ==
    ASSUME NEW c \in RowType, NEW s \in Terminal
    PROVE  /\ Ended(c, s) \in RowType
           /\ Ended(c, s).status = s
           /\ Ended(c, s).quota = c.quota
           /\ Ended(c, s).kind = c.kind
<1>1. [c EXCEPT !.status = s] \in RowType
  BY DEF RowType
<1> QED
  BY <1>1 DEF Ended, RowType

LEMMA SweptRow ==
    ASSUME NEW c \in RowType
    PROVE  /\ Swept(c) \in RowType
           /\ Swept(c).status = "FAILURE"
           /\ Swept(c).kind = c.kind
           /\ \/ Swept(c).quota = c.quota
              \/ c.kind = "legacy" /\ Swept(c).quota = 0
<1>1. /\ Ended(c, "FAILURE") \in RowType
      /\ Ended(c, "FAILURE").status = "FAILURE"
      /\ Ended(c, "FAILURE").quota = c.quota
      /\ Ended(c, "FAILURE").kind = c.kind
  BY EndedRow DEF Terminal
<1>2. ASSUME NEW d \in RowType
      PROVE  /\ [d EXCEPT !.quota = 0] \in RowType
             /\ [d EXCEPT !.quota = 0].status = d.status
             /\ [d EXCEPT !.quota = 0].kind = d.kind
             /\ [d EXCEPT !.quota = 0].quota = 0
  BY TaskPollingAssumption DEF RowType, Quotas
<1> QED
  BY <1>1, <1>2 DEF Swept

\* The rows an answer can lead to keep the quota and the kind.
AnswerOf(c, d) ==
    /\ d \in RowType
    /\ d.status # "absent"
    /\ d.quota = c.quota
    /\ d.kind = c.kind

LEMMA PollFailedRow ==
    ASSUME NEW c \in RowType, c.status # "absent" PROVE AnswerOf(c, PollFailed(c))
<1>1. ASSUME NEW d \in RowType, NEW n \in 0 .. MaxFails
      PROVE  /\ [d EXCEPT !.fails = n] \in RowType
             /\ [d EXCEPT !.fails = n].status = d.status
             /\ [d EXCEPT !.fails = n].quota = d.quota
             /\ [d EXCEPT !.fails = n].kind = d.kind
  BY DEF RowType
<1>2. c.fails \in 0 .. MaxFails
  BY DEF RowType
<1>3. CASE MaxFails > 0 /\ c.fails + 1 >= MaxFails
  <2>1. PollFailed(c) = [Ended(c, "FAILURE") EXCEPT !.fails = MaxFails]
    BY <1>3 DEF PollFailed
  <2>2. MaxFails \in 0 .. MaxFails
    BY TaskPollingAssumption
  <2> QED
    BY <2>1, <2>2, <1>1, EndedRow DEF AnswerOf, Terminal
<1>4. CASE ~(MaxFails > 0 /\ c.fails + 1 >= MaxFails)
  <2> DEFINE n == IF MaxFails > 0 THEN c.fails + 1 ELSE 0
  <2>1. PollFailed(c) = [c EXCEPT !.fails = n]
    BY <1>4 DEF PollFailed
  <2>2. n \in 0 .. MaxFails
    BY <1>2, <1>4, TaskPollingAssumption
  <2> QED
    BY <2>1, <2>2, <1>1 DEF AnswerOf
<1> QED
  BY <1>3, <1>4

LEMMA StillRunningRow ==
    ASSUME NEW c \in RowType, NEW d \in StillRunning(c) PROVE AnswerOf(c, d)
<1>1. PICK s \in {"NOT_START", "IN_PROGRESS"},
           f \in BOOLEAN :
         d = Running(c, s, f)
  BY DEF StillRunning
<1>2. [c EXCEPT !.status = s] \in RowType
  BY DEF RowType, Open
<1>3. 0 \in 0 .. MaxFails
  BY TaskPollingAssumption
<1>4. [c EXCEPT !.status = s, !.fails = 0] \in RowType
  BY <1>2, <1>3 DEF RowType
<1> QED
  BY <1>1, <1>4 DEF RowType, AnswerOf, Running

LEMMA AnswersRow ==
    ASSUME NEW c \in RowType, NEW t \in Tasks, upstream[t] \in {"running", "done", "failed"},
           NEW d \in Answers(t, c)
    PROVE  AnswerOf(c, d)
  BY StillRunningRow, EndedRow DEF Answers, AnswerOf, Terminal

LEMMA FinalQuota ==
    ASSUME NEW c \in RowType, c.status \in Terminal, NEW q \in FinalQuotas(c)
    PROVE  /\ q \in Quotas
           /\ c.status = "FAILURE" /\ c.kind \in {"tiered", "perCall"} => q = 0
<1>1. c.quota \in Quotas /\ 0 \in Quotas
  BY TaskPollingAssumption DEF RowType, Quotas
<1> QED
  BY <1>1 DEF FinalQuotas, Usage, Terminal

LEMMA NoRowType == NoRow \in RowType
  BY TaskPollingAssumption DEF NoRow, RowType, Quotas, Kinds

-----------------------------------------------------------------------------
(* Types.                                                                  *)

LEMMA InitTypeOK == Init => TypeOK
  BY NoRowType, TaskPollingAssumption DEF Init, TypeOK, Labels, Quotas

LEMMA InsertPick ==
    ASSUME NEW t \in Tasks, Insert(t)
    PROVE  \E q, reserved \in Quotas, kind \in Kinds,
              first \in {"NOT_START", "SUCCESS", "FAILURE"} :
              /\ q <= reserved
              /\ first = "FAILURE" => q = 0
              /\ row' = [row EXCEPT ![t] = NewRow(first, q, kind)]
              /\ paid' = [paid EXCEPT ![t] = reserved]
              /\ token' = [token EXCEPT ![t] = reserved]
              /\ owing' = [owing EXCEPT ![t] = q - reserved]
  BY Zenon DEF Insert

LEMMA NewRowType ==
    ASSUME NEW q \in Quotas, NEW kind \in Kinds,
           NEW first \in {"NOT_START", "SUCCESS", "FAILURE"}
    PROVE  /\ NewRow(first, q, kind) \in RowType
           /\ NewRow(first, q, kind).status = first
           /\ NewRow(first, q, kind).quota = q
           /\ NewRow(first, q, kind).kind = kind
  BY TaskPollingAssumption DEF RowType, Open, Terminal, NewRow

LEMMA InsertType == ASSUME TypeOK, NEW t \in Tasks, Insert(t) PROVE TypeOK'
<1>1. PICK q \in Quotas, reserved \in Quotas, kind \in Kinds,
           first \in {"NOT_START", "SUCCESS", "FAILURE"} :
         /\ row' = [row EXCEPT ![t] = NewRow(first, q, kind)]
         /\ paid' = [paid EXCEPT ![t] = reserved]
         /\ token' = [token EXCEPT ![t] = reserved]
         /\ owing' = [owing EXCEPT ![t] = q - reserved]
  BY InsertPick
<1>2. q \in Int /\ reserved \in Int
  BY TaskPollingAssumption DEF Quotas
<1> QED
  BY <1>1, <1>2, NewRowType DEF TypeOK, Insert, worker

LEMMA TakeType ==
    ASSUME TypeOK, NEW w \in Workers, NEW t \in Tasks, Poll(w, t) \/ Sweep(w, t)
    PROVE  TypeOK'
<1>1. row[t] \in RowType /\ row[t].status \in Open
  BY DEF TypeOK, Poll, Sweep, Unfinished
<1>2. Swept(row[t]) \in RowType
  BY <1>1, SweptRow
<1> QED
  BY <1>1, <1>2 DEF TypeOK, Poll, Sweep, Take, money, Labels

\* What the answer leaves in the worker's copy.
LEMMA AnswerPick ==
    ASSUME TypeOK, NEW w \in Workers, Answer(w), at[w] \in Tasks,
           copy[w].status # "absent"
    PROVE  \E c \in RowType : AnswerOf(copy[w], c) /\ copy' = [copy EXCEPT ![w] = c]
<1>1. copy[w] \in RowType /\ upstream[at[w]] \in {"running", "done", "failed"}
  BY DEF TypeOK
<1>2. CASE \E c \in Answers(at[w], copy[w]) : copy' = [copy EXCEPT ![w] = c]
  BY <1>1, <1>2, AnswersRow DEF AnswerOf
<1>3. CASE \E c \in {PollFailed(copy[w]), Ended(copy[w], "FAILURE")} :
              copy' = [copy EXCEPT ![w] = c]
  <2>1. AnswerOf(copy[w], PollFailed(copy[w]))
    BY <1>1, PollFailedRow
  <2>2. AnswerOf(copy[w], Ended(copy[w], "FAILURE"))
    BY <1>1, EndedRow DEF AnswerOf, Terminal
  <2> QED
    BY <1>3, <2>1, <2>2 DEF AnswerOf
<1> QED
  BY <1>2, <1>3 DEF Answer

LEMMA AnswerType ==
    ASSUME IInv, NEW w \in Workers, Answer(w) PROVE TypeOK'
<1>1. TypeOK /\ at[w] \in Tasks /\ copy[w].status # "absent"
  BY DEF IInv, WorkerOK, ReadingOK, Reading, Answer
<1>2. PICK c \in RowType : copy' = [copy EXCEPT ![w] = c]
  BY <1>1, AnswerPick
<1>3. faults' \in 0 .. FaultBudget
  BY <1>1, TaskPollingAssumption DEF TypeOK, Answer, Fault
<1> QED
  BY <1>1, <1>2, <1>3 DEF TypeOK, Answer, money, Labels

LEMMA DropType ==
    ASSUME TypeOK, NEW w \in Workers, Drop(w)
    PROVE  /\ pc' \in [Workers -> Labels]
           /\ at' \in [Workers -> Tasks \cup {NoTask}]
           /\ copy' \in [Workers -> RowType]
           /\ from' \in [Workers -> Open \cup Terminal \cup {"absent"}]
           /\ due' \in [Workers -> Quotas]
<1>1. 0 \in Quotas
  BY TaskPollingAssumption DEF Quotas
<1> QED
  BY <1>1, NoRowType DEF TypeOK, Drop, Labels

LEMMA FaultType == ASSUME TypeOK, Fault PROVE faults' \in 0 .. FaultBudget
  BY TaskPollingAssumption DEF TypeOK, Fault

LEMMA WorkerType ==
    ASSUME IInv, NEW w \in Workers,
           \/ Abandon(w) \/ BulkFail(w) \/ Write(w) \/ SweepWrite(w) \/ Bill(w)
           \/ AdjustFunding(w) \/ AdjustToken(w) \/ UpdateQuota(w) \/ Crash(w)
    PROVE  TypeOK'
<1>1. TypeOK /\ copy[w] \in RowType
  BY DEF IInv, TypeOK
<1>2. pc[w] # "idle" => at[w] \in Tasks
  BY <1>1 DEF IInv, WorkerOK, ReadingOK, BillingOK, TypeOK, Labels, Reading
<1> USE <1>1, DropType, FaultType
<1>3. CASE Abandon(w)
  BY <1>3 DEF TypeOK, Abandon, money
<1>4. CASE BulkFail(w)
  <2>1. Ended(row[at[w]], "FAILURE") \in RowType
    BY <1>2, <1>4, EndedRow DEF BulkFail, TypeOK, Terminal
  <2> QED
    BY <1>2, <1>4, <2>1 DEF TypeOK, BulkFail, money
<1>5. CASE Write(w)
  BY <1>2, <1>5 DEF TypeOK, Write, Loses, GoBill, Labels, Billing, money
<1>6. CASE SweepWrite(w)
  BY <1>2, <1>6 DEF TypeOK, SweepWrite, Loses, GoBill, Labels, Billing, money
<1>7. CASE Bill(w)
  <2>1. copy[w].status \in Terminal
    BY <1>7 DEF Bill, IInv, WorkerOK, BillingOK, Billing
  <2>2. PICK q \in FinalQuotas(copy[w]) :
           \/ Drop(w)
           \/ /\ due' = [due EXCEPT ![w] = q]
              /\ pc' = [pc EXCEPT ![w] = "funding"]
              /\ UNCHANGED <<at, copy, from>>
    BY <1>7 DEF Bill
  <2>3. q \in Quotas
    BY <2>1, FinalQuota
  <2> QED
    BY <1>7, <2>2, <2>3 DEF TypeOK, Bill, Labels, Billing, money
<1>8. CASE AdjustFunding(w)
  <2>1. Change(w) \in Int
    BY DEF Change, TypeOK, RowType, Quotas
  <2> QED
    BY <1>2, <1>8, <2>1 DEF TypeOK, AdjustFunding, CutShort, Labels, Billing
<1>9. CASE AdjustToken(w)
  <2>1. Change(w) \in Int
    BY DEF Change, TypeOK, RowType, Quotas
  <2> QED
    BY <1>2, <1>9, <2>1 DEF TypeOK, AdjustToken, CutShort, Labels, Billing
<1>10. CASE UpdateQuota(w)
  <2>1. [row[at[w]] EXCEPT !.quota = due[w]] \in RowType
    BY <1>2, <1>10, ZenonT(60) DEF TypeOK, RowType, UpdateQuota
  <2>2. row' \in [Tasks -> RowType]
    BY <1>2, <1>10, <2>1 DEF TypeOK, UpdateQuota
  <2> QED
    BY <1>2, <1>10, <2>2 DEF TypeOK, UpdateQuota, CutShort, money
<1>11. CASE Crash(w)
  BY <1>2, <1>11, TaskPollingAssumption DEF TypeOK, Crash, Billing, money
<1> QED
  BY <1>3, <1>4, <1>5, <1>6, <1>7, <1>8, <1>9, <1>10, <1>11

LEMMA TypeStep == ASSUME IInv, [Next]_vars PROVE TypeOK'
<1>1. TypeOK
  BY DEF IInv
<1>2. ASSUME NEW t \in Tasks, Insert(t) \/ Settle(t) \/ UpstreamEnds(t) PROVE TypeOK'
  <2>1. CASE Insert(t)
    BY <1>1, <2>1, InsertType
  <2>2. CASE Settle(t)
    BY <1>1, <2>2 DEF TypeOK, Settle, worker
  <2>3. CASE UpstreamEnds(t)
    BY <1>1, <2>3 DEF TypeOK, UpstreamEnds, worker, money
  <2> QED
    BY <1>2, <2>1, <2>2, <2>3
<1>3. ASSUME NEW w \in Workers,
             Step(w) \/ SweepAny(w) \/ Abandon(w) \/ BulkFail(w) \/ Crash(w)
      PROVE  TypeOK'
  BY <1>1, <1>3, TakeType, AnswerType, WorkerType DEF Step, SweepAny
<1>4. CASE UNCHANGED vars
  BY <1>1, <1>4 DEF TypeOK, vars
<1> QED
  BY <1>2, <1>3, <1>4 DEF Next

-----------------------------------------------------------------------------
(* A step of worker w changes its own state and the data of one task t.    *)

SameWorker(v) ==
    /\ pc'[v] = pc[v]
    /\ at'[v] = at[v]
    /\ copy'[v] = copy[v]
    /\ from'[v] = from[v]
    /\ due'[v] = due[v]

SameTask(u) ==
    /\ row'[u] = row[u]
    /\ paid'[u] = paid[u]
    /\ token'[u] = token[u]
    /\ owing'[u] = owing[u]
    /\ u \in cut' <=> u \in cut
    /\ u \in bulk' <=> u \in bulk

\* The row keeps its kind and, while it is open, its quota; an end stays one.
Benign(t) ==
    /\ row'[t].kind = row[t].kind
    /\ row'[t].status # "absent"
    /\ row'[t].status \in Open =>
          row[t].status \in Open /\ row'[t].quota = row[t].quota

Frame(w, t) ==
    /\ \A v \in Workers \ {w} : SameWorker(v)
    /\ \A u \in Tasks \ {t} : SameTask(u)
    /\ Benign(t)
    /\ pc[w] \in Billing => at[w] = t
    /\ pc'[w] \in Billing => at'[w] = t

LEMMA OtherReader ==
    ASSUME NEW w \in Workers, NEW t \in Tasks, Frame(w, t),
           NEW v \in Workers \ {w}, ReadingOK(v)
    PROVE  ReadingOK(v)'
<1>1. SameWorker(v) /\ at[v] \in Tasks
  BY DEF Frame, ReadingOK
<1>2. CASE at[v] = t
  BY <1>1, <1>2 DEF Frame, ReadingOK, SameWorker, Benign
<1>3. CASE at[v] # t
  BY <1>1, <1>3 DEF Frame, ReadingOK, SameWorker, SameTask
<1> QED
  BY <1>2, <1>3

LEMMA OtherBiller ==
    ASSUME NEW w \in Workers, NEW t \in Tasks, Frame(w, t),
           NEW v \in Workers \ {w}, BillingOK(v), MoneyOK(v), at[v] # t \/ SameTask(t)
    PROVE  BillingOK(v)' /\ MoneyOK(v)'
<1>1. SameWorker(v) /\ at[v] \in Tasks /\ SameTask(at[v])
  BY DEF Frame, BillingOK
<1>2. BillingOK(v)'
  BY <1>1 DEF BillingOK, SameWorker, SameTask
<1>3. MoneyOK(v)'
  BY <1>1 DEF MoneyOK, SameWorker, SameTask
<1> QED
  BY <1>2, <1>3

LEMMA OtherTask ==
    ASSUME NEW w \in Workers, NEW t \in Tasks, Frame(w, t),
           NEW u \in Tasks \ {t}, TaskOK(u)
    PROVE  TaskOK(u)'
<1>1. SameTask(u)
  BY DEF Frame
<1>2. BeingBilled(u)' <=> BeingBilled(u)
  BY DEF Frame, BeingBilled, SameWorker
<1> QED
  BY <1>1, <1>2
  DEF SameTask, TaskOK, OpenOK, RecordOK, ClearedOK, HasItsMoneyBack, Charge,
      Legacy, RefundedInFull

\* A step that respects the frame is checked at its worker and its task.
LEMMA Framed ==
    ASSUME IInv, TypeOK', NEW w \in Workers, NEW t \in Tasks, Frame(w, t),
           WorkerOK(w)', TaskOK(t)',
           \/ SameTask(t)
           \/ \A v \in Workers \ {w} :
                 pc[v] \in Billing /\ at[v] = t => BillingOK(v)' /\ MoneyOK(v)',
           pc'[w] \in Billing =>
              \A v \in Workers \ {w} : ~(pc[v] \in Billing /\ at[v] = t)
    PROVE  IInv'
<1>1. ASSUME NEW v \in Workers PROVE WorkerOK(v)'
  <2>1. CASE v = w
    BY <2>1
  <2>2. CASE v # w
    <3>1. SameWorker(v) /\ WorkerOK(v)
      BY <2>2 DEF Frame, IInv
    <3>2. pc[v] = "idle" => due'[v] = 0
      BY <3>1 DEF SameWorker, WorkerOK
    <3>3. pc[v] \in Reading => ReadingOK(v)'
      BY <2>2, <3>1, OtherReader DEF WorkerOK
    <3>4. pc[v] \in Billing => BillingOK(v)' /\ MoneyOK(v)'
      BY <2>2, <3>1, OtherBiller DEF WorkerOK
    <3> QED
      BY <3>1, <3>2, <3>3, <3>4 DEF SameWorker, WorkerOK
  <2> QED
    BY <2>1, <2>2
<1>2. OneBills'
  <2> SUFFICES ASSUME NEW x \in Workers, NEW y \in Workers, pc'[x] \in Billing,
                      pc'[y] \in Billing, at'[x] = at'[y], x # y
               PROVE  FALSE
    BY DEF OneBills
  <2>1. \A v \in Workers \ {w} : pc'[v] = pc[v] /\ at'[v] = at[v]
    BY DEF Frame, SameWorker
  <2>2. pc'[w] \in Billing => at'[w] = t
    BY DEF Frame
  <2>3. x # w /\ y # w
    BY <2>1, <2>2
  <2> QED
    BY <2>1, <2>3 DEF IInv, OneBills
<1>3. ASSUME NEW u \in Tasks PROVE TaskOK(u)'
  BY OtherTask DEF IInv
<1> QED
  BY <1>1, <1>2, <1>3 DEF IInv

-----------------------------------------------------------------------------
(* Each action preserves the invariant.                                    *)

\* What is known of worker w when it is not idle.
LEMMA Busy ==
    ASSUME IInv, NEW w \in Workers, pc[w] # "idle"
    PROVE  /\ TypeOK
           /\ w \in Pollers
           /\ at[w] \in Tasks
           /\ row[at[w]] \in RowType
           /\ row[at[w]].status # "absent"
           /\ copy[w] \in RowType
           /\ copy[w].kind = row[at[w]].kind
           /\ TaskOK(at[w])
           /\ pc[w] \in Reading => ReadingOK(w)
           /\ pc[w] \in Billing => BillingOK(w) /\ MoneyOK(w)
<1>1. TypeOK /\ WorkerOK(w) /\ pc[w] \in Reading \cup Billing
  BY DEF IInv, TypeOK, Labels, Reading
<1> QED
  BY <1>1 DEF IInv, WorkerOK, ReadingOK, BillingOK, TypeOK, Terminal

\* Nobody else bills the task that w bills, and nobody a task that is open.
LEMMA NobodyElseBills ==
    ASSUME IInv, NEW w \in Workers, NEW t \in Tasks,
           (pc[w] \in Billing /\ at[w] = t) \/ row[t].status \in Open
    PROVE  \A v \in Workers \ {w} : ~(pc[v] \in Billing /\ at[v] = t)
  BY DEF IInv, OneBills, WorkerOK, BillingOK, Open, Terminal

\* A task whose data did not change, and which is not billed by w.
LEMMA SameTaskOK ==
    ASSUME NEW w \in Workers, NEW t \in Tasks, TaskOK(t), SameTask(t),
           \A v \in Workers \ {w} : SameWorker(v),
           ~(pc[w] \in Billing /\ at[w] = t), ~(pc'[w] \in Billing /\ at'[w] = t)
    PROVE  TaskOK(t)'
<1>1. BeingBilled(t)' <=> BeingBilled(t)
  BY DEF BeingBilled, SameWorker
<1> QED
  BY <1>1
  DEF SameTask, TaskOK, OpenOK, RecordOK, ClearedOK, HasItsMoneyBack, Charge,
      Legacy, RefundedInFull

LEMMA TakeStep ==
    ASSUME IInv, NEW w \in Workers, NEW t \in Tasks, Poll(w, t) \/ Sweep(w, t)
    PROVE  IInv'
<1>1. TypeOK /\ TypeOK' /\ TaskOK(t) /\ WorkerOK(w)
  BY TakeType DEF IInv
<1>2. row[t] \in RowType /\ row[t].status \in Open /\ row[t].status # "absent"
  BY <1>1 DEF TypeOK, Poll, Sweep, Unfinished, Open
<1>3. /\ UNCHANGED <<row, paid, token, owing, cut, bulk>>
      /\ pc[w] = "idle" /\ pc'[w] \in {"ask", "sweep"} /\ at'[w] = t
      /\ w \in Pollers /\ from'[w] = row[t].status /\ due' = due
      /\ \A v \in Workers \ {w} : SameWorker(v)
  BY <1>1 DEF TypeOK, Poll, Sweep, Take, money, SameWorker
<1>4. /\ copy'[w].kind = row[t].kind /\ copy'[w].status # "absent"
      /\ \/ copy'[w].quota = row[t].quota
         \/ pc'[w] = "sweep" /\ row[t].kind = "legacy" /\ copy'[w].quota = 0
      /\ pc'[w] = "sweep" => copy'[w].status = "FAILURE"
  <2>1. CASE Poll(w, t)
    BY <1>1, <1>2, <2>1 DEF TypeOK, Poll, Take
  <2>2. CASE Sweep(w, t)
    BY <1>1, <1>2, <2>2, SweptRow DEF TypeOK, Sweep, Take
  <2> QED
    BY <2>1, <2>2
<1>5. Frame(w, t) /\ SameTask(t)
  BY <1>2, <1>3 DEF Frame, SameTask, Benign, Billing
<1>6. WorkerOK(w)'
  <2>1. due'[w] = 0
    BY <1>1, <1>3 DEF WorkerOK
  <2> QED
    BY <1>2, <1>3, <1>4, <2>1 DEF WorkerOK, ReadingOK, Reading, Billing
<1>7. TaskOK(t)'
  BY <1>1, <1>3, <1>5, SameTaskOK DEF Billing
<1> QED
  BY <1>1, <1>3, <1>5, <1>6, <1>7, Framed DEF Billing

LEMMA AnswerStep ==
    ASSUME IInv, NEW w \in Workers, Answer(w) PROVE IInv'
<1>1. pc[w] = "ask" /\ TypeOK'
  BY AnswerType DEF Answer
<1>2. TypeOK /\ at[w] \in Tasks /\ TaskOK(at[w]) /\ ReadingOK(w)
  BY <1>1, Busy DEF Reading
<1>3. PICK c \in RowType : AnswerOf(copy[w], c) /\ copy' = [copy EXCEPT ![w] = c]
  BY <1>2, AnswerPick DEF ReadingOK
<1>4. /\ UNCHANGED <<row, paid, token, owing, cut, bulk, at, from, due>>
      /\ pc'[w] = "write" /\ copy'[w] = c
      /\ \A v \in Workers \ {w} : SameWorker(v)
  BY <1>2, <1>3 DEF TypeOK, Answer, money, SameWorker
<1>5. Frame(w, at[w]) /\ SameTask(at[w])
  BY <1>1, <1>2, <1>4 DEF Frame, SameTask, Benign, Billing, ReadingOK
<1>6. WorkerOK(w)'
  BY <1>1, <1>2, <1>3, <1>4 DEF WorkerOK, ReadingOK, Reading, Billing, AnswerOf
<1>7. TaskOK(at[w])'
  BY <1>1, <1>2, <1>4, <1>5, SameTaskOK DEF Billing
<1> QED
  BY <1>1, <1>2, <1>4, <1>5, <1>6, <1>7, Framed DEF Billing

\* A worker that leaves a row it has not won changes nothing but itself.
LEMMA LeaveStep ==
    ASSUME IInv, TypeOK', NEW w \in Workers, pc[w] \in Reading, Drop(w),
           UNCHANGED <<row, paid, token, owing, cut, bulk>>
    PROVE  IInv'
<1>1. PICK t \in Tasks : t = at[w] /\ TypeOK /\ TaskOK(t) /\ ReadingOK(w)
  BY Busy DEF Reading
<1>2. /\ pc'[w] = "idle" /\ due'[w] = 0
      /\ \A v \in Workers \ {w} : SameWorker(v)
  BY <1>1 DEF TypeOK, Drop, SameWorker
<1>3. Frame(w, t) /\ SameTask(t)
  BY <1>1, <1>2 DEF Frame, SameTask, Benign, Billing, ReadingOK, Reading
<1>4. WorkerOK(w)'
  BY <1>2 DEF WorkerOK, Reading, Billing
<1>5. TaskOK(t)'
  BY <1>1, <1>2, <1>3, SameTaskOK DEF Billing, Reading
<1> QED
  BY <1>1, <1>2, <1>3, <1>4, <1>5, Framed DEF Billing

LEMMA BulkFailStep ==
    ASSUME IInv, NEW w \in Workers, BulkFail(w) PROVE IInv'
<1>1. pc[w] = "ask" /\ TypeOK'
  BY WorkerType DEF BulkFail
<1>2. PICK t \in Tasks : /\ t = at[w] /\ TypeOK /\ TaskOK(t) /\ ReadingOK(w)
                         /\ row[t] \in RowType
  BY <1>1, Busy DEF Reading
<1>3. /\ row'[t].status = "FAILURE"
      /\ row'[t].quota = row[t].quota
      /\ row'[t].kind = row[t].kind
      /\ UNCHANGED <<paid, token, owing, cut>>
      /\ bulk' = bulk \cup {t}
      /\ \A u \in Tasks \ {t} : row'[u] = row[u]
  BY <1>2, EndedRow DEF BulkFail, TypeOK, money, Terminal
<1>4. /\ pc'[w] = "idle" /\ due'[w] = 0
      /\ \A v \in Workers \ {w} : SameWorker(v)
  BY <1>2 DEF TypeOK, BulkFail, Drop, SameWorker
<1>5. Frame(w, t)
  BY <1>1, <1>3, <1>4 DEF Frame, SameTask, Benign, Billing, Open
<1>6. WorkerOK(w)'
  BY <1>4 DEF WorkerOK, Reading, Billing
<1>7. BeingBilled(t)' <=> BeingBilled(t)
  BY <1>1, <1>4 DEF BeingBilled, SameWorker, Billing
<1>8. TaskOK(t)'
  BY <1>2, <1>3, <1>7 DEF TaskOK, OpenOK, RecordOK, Charge, Legacy, Terminal
<1>9. ASSUME NEW v \in Workers \ {w}, pc[v] \in Billing, at[v] = t
      PROVE  BillingOK(v)' /\ MoneyOK(v)'
  <2>1. SameWorker(v) /\ BillingOK(v) /\ MoneyOK(v)
    BY <1>4, <1>9 DEF IInv, WorkerOK
  <2>2. BillingOK(v)'
    BY <1>3, <1>9, <2>1 DEF BillingOK, SameWorker, Terminal
  <2>3. MoneyOK(v)'
    BY <1>3, <1>9, <2>1 DEF MoneyOK, SameWorker
  <2> QED
    BY <2>2, <2>3
<1> QED
  BY <1>1, <1>4, <1>5, <1>6, <1>8, <1>9, Framed DEF Billing

\* A worker that wins the row: its copy replaces a row that was open, with the
\* same quota or, for a legacy sweep, none.
Won(w, t) ==
    /\ t = at[w]
    /\ row[t].status \in Open
    /\ row'[t] = copy[w]
    /\ \A u \in Tasks \ {t} : row'[u] = row[u]
    /\ UNCHANGED <<paid, token, owing, cut, bulk>>

LEMMA WonRow ==
    ASSUME IInv, NEW w \in Workers, pc[w] \in {"write", "sweep"}, Wins(w),
           row' = [row EXCEPT ![at[w]] = copy[w]],
           UNCHANGED <<paid, token, owing, cut, bulk>>
    PROVE  \E t \in Tasks : Won(w, t)
  BY Busy DEF Won, Wins, ReadingOK, Reading, TypeOK

\* It goes on to bill.
LEMMA WinAndBill ==
    ASSUME IInv, TypeOK', NEW w \in Workers, pc[w] \in {"write", "sweep"},
           NEW t \in Tasks, Won(w, t),
           pc[w] = "sweep" => copy[w].quota # 0,
           copy[w].status \in Terminal,
           pc' = [pc EXCEPT ![w] = IF pc[w] = "sweep" THEN "funding" ELSE "settle"],
           UNCHANGED <<at, copy, from, due>>
    PROVE  IInv'
<1>1. TypeOK /\ TaskOK(t) /\ ReadingOK(w) /\ at[w] = t
  BY Busy DEF Reading, Won
<1>2. /\ pc'[w] = IF pc[w] = "sweep" THEN "funding" ELSE "settle"
      /\ \A v \in Workers \ {w} : SameWorker(v)
  BY <1>1 DEF TypeOK, SameWorker
<1>3. /\ paid[t] + owing[t] = copy[w].quota
      /\ token[t] + owing[t] = copy[w].quota
      /\ t \notin cut
  BY <1>1 DEF TaskOK, OpenOK, ReadingOK, Won, Open, Terminal
<1>4. Frame(w, t)
  BY <1>1, <1>2 DEF Frame, SameTask, Benign, Billing, Won, ReadingOK, Open, Terminal
<1>5. BillingOK(w)'
  BY <1>1, <1>2 DEF BillingOK, ReadingOK, Won
<1>6. MoneyOK(w)'
  BY <1>1, <1>2, <1>3 DEF MoneyOK, ReadingOK, Won
<1>7. WorkerOK(w)'
  BY <1>2, <1>5, <1>6 DEF WorkerOK, Reading
<1>8. BeingBilled(t)'
  BY <1>1, <1>2 DEF BeingBilled, Billing
<1>9. TaskOK(t)'
  BY <1>1, <1>3, <1>8
  DEF TaskOK, OpenOK, RecordOK, ClearedOK, HasItsMoneyBack, Charge, Won, Terminal
<1>10. \A v \in Workers \ {w} : ~(pc[v] \in Billing /\ at[v] = t)
  BY NobodyElseBills DEF Won
<1> QED
  BY <1>4, <1>7, <1>9, <1>10, Framed

\* It has nothing to bill: the task goes on, or its charge was 0 or is kept.
LEMMA WinAndLeave ==
    ASSUME IInv, TypeOK', NEW w \in Workers, pc[w] \in {"write", "sweep"},
           NEW t \in Tasks, Won(w, t), Drop(w),
           IF pc[w] = "sweep" THEN copy[w].quota = 0 ELSE copy[w].status \in Open
    PROVE  IInv'
<1>1. TypeOK /\ TaskOK(t) /\ ReadingOK(w) /\ at[w] = t
  BY Busy DEF Reading, Won
<1>2. /\ pc'[w] = "idle" /\ due'[w] = 0
      /\ \A v \in Workers \ {w} : SameWorker(v)
  BY <1>1 DEF TypeOK, Drop, SameWorker
<1>3. Frame(w, t)
  BY <1>1, <1>2 DEF Frame, SameTask, Benign, Billing, Won, ReadingOK, Open, Terminal
<1>4. WorkerOK(w)'
  BY <1>2 DEF WorkerOK, Reading, Billing
<1>5. TaskOK(t)'
  <2>1. /\ paid[t] + owing[t] = row[t].quota
        /\ token[t] + owing[t] = row[t].quota
        /\ t \notin cut
        /\ Charge(t) >= 0
    BY <1>1 DEF TaskOK, OpenOK, Won, Open, Terminal
  <2>2. copy[w].quota = row[t].quota \/ copy[w].kind = "legacy"
    BY <1>1 DEF ReadingOK, Won
  <2>3. copy[w].status \in Terminal => copy[w].quota = 0
    BY <1>1 DEF Open, Terminal
  <2>4. copy[w].status \notin Terminal => copy[w].quota = row[t].quota
    BY <1>1 DEF ReadingOK, Won, Terminal
  <2> QED
    BY <2>1, <2>2, <2>3, <2>4
    DEF TaskOK, OpenOK, RecordOK, ClearedOK, HasItsMoneyBack, Charge, Won, Terminal,
        Legacy, RefundedInFull
<1>6. \A v \in Workers \ {w} : ~(pc[v] \in Billing /\ at[v] = t)
  BY NobodyElseBills DEF Won
<1> QED
  BY <1>2, <1>3, <1>4, <1>5, <1>6, Framed DEF Billing

LEMMA WriteStep ==
    ASSUME IInv, NEW w \in Workers, Write(w) PROVE IInv'
<1>1. /\ pc[w] = "write" /\ TypeOK' /\ UNCHANGED <<paid, token, owing, cut, bulk>>
      /\ ReadingOK(w) /\ w \in Pollers /\ copy[w] \in RowType
  BY WorkerType, Busy DEF Write, money, Reading
<1>2. CASE Loses(w)
  BY <1>1, <1>2, LeaveStep DEF Loses, Reading
<1>3. CASE Wins(w) /\ row' = [row EXCEPT ![at[w]] = copy[w]] /\ BillsOnWin(w)
                   /\ GoBill(w, "settle")
  <2>1. PICK t \in Tasks : Won(w, t)
    BY <1>1, <1>3, WonRow
  <2> QED
    BY <1>1, <1>3, <2>1, WinAndBill DEF GoBill, BillsOnWin
<1>4. CASE Wins(w) /\ row' = [row EXCEPT ![at[w]] = copy[w]] /\ ~BillsOnWin(w)
                   /\ Drop(w)
  <2>1. PICK t \in Tasks : Won(w, t)
    BY <1>1, <1>4, WonRow
  <2>2. copy[w].status \in Open
    BY <1>1, <1>4 DEF BillsOnWin, ReadingOK, Open, Terminal, RowType
  <2> QED
    BY <1>1, <1>4, <2>1, <2>2, WinAndLeave
<1> QED
  BY <1>2, <1>3, <1>4 DEF Write

LEMMA SweepWriteStep ==
    ASSUME IInv, NEW w \in Workers, SweepWrite(w) PROVE IInv'
<1>1. /\ pc[w] = "sweep" /\ TypeOK' /\ UNCHANGED <<paid, token, owing, cut, bulk>>
      /\ ReadingOK(w)
  BY WorkerType, Busy DEF SweepWrite, money, Reading
<1>2. CASE Loses(w)
  BY <1>1, <1>2, LeaveStep DEF Loses, Reading
<1>3. CASE Wins(w) /\ row' = [row EXCEPT ![at[w]] = copy[w]] /\ copy[w].quota # 0
                   /\ GoBill(w, "funding")
  <2>1. PICK t \in Tasks : Won(w, t)
    BY <1>1, <1>3, WonRow
  <2>2. copy[w].status \in Terminal
    BY <1>1 DEF ReadingOK, Terminal
  <2> QED
    BY <1>1, <1>3, <2>1, <2>2, WinAndBill DEF GoBill
<1>4. CASE Wins(w) /\ row' = [row EXCEPT ![at[w]] = copy[w]] /\ copy[w].quota = 0
                   /\ Drop(w)
  <2>1. PICK t \in Tasks : Won(w, t)
    BY <1>1, <1>4, WonRow
  <2> QED
    BY <1>1, <1>4, <2>1, WinAndLeave
<1> QED
  BY <1>2, <1>3, <1>4 DEF SweepWrite

\* What a worker that bills knows, with t for its task.
LEMMA Bills ==
    ASSUME IInv, NEW w \in Workers, pc[w] \in Billing
    PROVE  \E t \in Tasks :
             /\ t = at[w] /\ TypeOK /\ TaskOK(t) /\ BillingOK(w) /\ MoneyOK(w)
             /\ row[t] \in RowType /\ copy[w] \in RowType
             /\ paid[t] \in Int /\ token[t] \in Int /\ owing[t] \in Int
             /\ due[w] \in Nat /\ copy[w].quota \in Nat
             /\ \A v \in Workers \ {w} : ~(pc[v] \in Billing /\ at[v] = t)
<1>1. pc[w] # "idle" /\ TypeOK /\ due[w] \in Quotas
  BY DEF Billing, IInv, TypeOK
<1>2. due[w] \in Nat /\ copy[w].quota \in Nat
  BY <1>1, TaskPollingAssumption DEF TypeOK, RowType, Quotas
<1> QED
  BY <1>1, <1>2, Busy, NobodyElseBills DEF TypeOK

\* The billing of t is over: w leaves, and the row's quota and the accounts agree
\* or the billing was cut short.
LEMMA BillingOver ==
    ASSUME IInv, TypeOK', NEW w \in Workers, NEW t \in Tasks, pc[w] \in Billing,
           at[w] = t, Drop(w), UNCHANGED <<paid, token, owing, bulk>>,
           \A u \in Tasks \ {t} : row'[u] = row[u] /\ (u \in cut' <=> u \in cut),
           row'[t].status = row[t].status, row'[t].kind = row[t].kind,
           t \notin cut' => /\ paid[t] + owing[t] = row'[t].quota
                            /\ token[t] + owing[t] = row'[t].quota,
           t \notin bulk => ClearedOK(t)' /\ HasItsMoneyBack(t)'
    PROVE  IInv'
<1>1. TypeOK /\ TaskOK(t) /\ BillingOK(w) /\ MoneyOK(w) /\ row[t] \in RowType
  BY Bills
<1>2. /\ pc'[w] = "idle" /\ due'[w] = 0
      /\ \A v \in Workers \ {w} : SameWorker(v)
  BY <1>1 DEF TypeOK, Drop, SameWorker
<1>3. Frame(w, t)
  BY <1>1, <1>2 DEF Frame, SameTask, Benign, Billing, BillingOK, Open, Terminal
<1>4. WorkerOK(w)'
  BY <1>2 DEF WorkerOK, Reading, Billing
<1>5. TaskOK(t)'
  BY <1>1 DEF TaskOK, OpenOK, RecordOK, Charge, BillingOK
<1>6. \A v \in Workers \ {w} : ~(pc[v] \in Billing /\ at[v] = t)
  BY NobodyElseBills
<1> QED
  BY <1>2, <1>3, <1>4, <1>5, <1>6, Framed DEF Billing

\* The billing goes on to another statement, with the same row.
LEMMA BillingGoesOn ==
    ASSUME IInv, TypeOK', NEW w \in Workers, NEW t \in Tasks, pc[w] \in Billing,
           pc'[w] \in Billing, at[w] = t, UNCHANGED <<row, owing, bulk, at, copy, from>>,
           \A v \in Workers \ {w} : pc'[v] = pc[v] /\ due'[v] = due[v],
           \A u \in Tasks \ {t} :
              /\ paid'[u] = paid[u]
              /\ token'[u] = token[u]
              /\ u \in cut' <=> u \in cut,
           paid'[t] + owing[t] >= 0,
           t \notin bulk => ClearedOK(t)',
           MoneyOK(w)'
    PROVE  IInv'
<1>1. TypeOK /\ TaskOK(t) /\ BillingOK(w)
  BY Bills
<1>2. Frame(w, t)
  BY <1>1 DEF Frame, SameWorker, SameTask, Benign, BillingOK, Open, Terminal
<1>3. WorkerOK(w)'
  <2>1. BillingOK(w)'
    BY <1>1 DEF BillingOK
  <2> QED
    BY <2>1 DEF WorkerOK, Reading, Billing
<1>4. BeingBilled(t)'
  BY DEF BeingBilled
<1>5. TaskOK(t)'
  BY <1>1, <1>4 DEF TaskOK, OpenOK, RecordOK, HasItsMoneyBack, Charge, BillingOK
<1>6. \A v \in Workers \ {w} : ~(pc[v] \in Billing /\ at[v] = t)
  BY NobodyElseBills
<1> QED
  BY <1>2, <1>3, <1>5, <1>6, Framed

LEMMA BillStep ==
    ASSUME IInv, NEW w \in Workers, Bill(w) PROVE IInv'
<1>1. pc[w] = "settle" /\ pc[w] \in Billing /\ TypeOK'
  BY WorkerType DEF Bill, Billing
<1>2. PICK t \in Tasks :
         /\ t = at[w] /\ TypeOK /\ TaskOK(t) /\ BillingOK(w) /\ MoneyOK(w)
         /\ copy[w] \in RowType
         /\ paid[t] \in Int /\ owing[t] \in Int
  BY <1>1, Bills
<1>3. UNCHANGED <<row, paid, token, owing, cut, bulk>>
  BY DEF Bill, money
<1>4. PICK q \in FinalQuotas(copy[w]) :
         IF q = copy[w].quota
         THEN Drop(w)
         ELSE /\ due' = [due EXCEPT ![w] = q]
              /\ pc' = [pc EXCEPT ![w] = "funding"]
              /\ UNCHANGED <<at, copy, from>>
  BY DEF Bill
<1>5. copy[w].status = "FAILURE" /\ copy[w].kind \in {"tiered", "perCall"} => q = 0
  BY <1>2, FinalQuota DEF BillingOK
<1>6. /\ paid[t] + owing[t] = copy[w].quota /\ token[t] + owing[t] = copy[w].quota
      /\ t \notin cut /\ row[t].quota = copy[w].quota /\ row[t].kind = copy[w].kind
      /\ t \notin bulk => row[t].status = copy[w].status
  BY <1>1, <1>2 DEF MoneyOK, BillingOK
<1>7. CASE q = copy[w].quota
  <2>1. t \notin bulk => ClearedOK(t)' /\ HasItsMoneyBack(t)'
    BY <1>3, <1>5, <1>6, <1>7
    DEF ClearedOK, HasItsMoneyBack, Charge, RefundedInFull
  <2>2. Drop(w)
    BY <1>4, <1>7
  <2> QED
    BY <1>1, <1>2, <1>3, <1>6, <2>1, <2>2, BillingOver
<1>8. CASE q # copy[w].quota
  <2>1. /\ pc'[w] = "funding" /\ due'[w] = q /\ UNCHANGED <<at, copy, from>>
        /\ \A v \in Workers \ {w} : pc'[v] = pc[v] /\ due'[v] = due[v]
    BY <1>2, <1>4, <1>8 DEF TypeOK
  <2>2. MoneyOK(w)'
    BY <1>2, <1>3, <1>5, <1>6, <2>1 DEF MoneyOK
  <2>3. t \notin bulk => ClearedOK(t)'
    BY <1>2, <1>3 DEF TaskOK, ClearedOK, Charge, RefundedInFull
  <2>4. paid'[t] + owing[t] >= 0
    BY <1>2, <1>3 DEF TaskOK, Charge
  <2> QED
    BY <1>1, <1>2, <1>3, <2>1, <2>2, <2>3, <2>4, BillingGoesOn DEF Billing
<1> QED
  BY <1>7, <1>8

LEMMA AdjustFundingStep ==
    ASSUME IInv, NEW w \in Workers, AdjustFunding(w) PROVE IInv'
<1>1. pc[w] = "funding" /\ pc[w] \in Billing /\ TypeOK'
  BY WorkerType DEF AdjustFunding, Billing
<1>2. PICK t \in Tasks :
         /\ t = at[w] /\ TypeOK /\ TaskOK(t) /\ BillingOK(w) /\ MoneyOK(w)
         /\ paid[t] \in Int /\ token[t] \in Int /\ owing[t] \in Int
         /\ due[w] \in Nat /\ copy[w].quota \in Nat
  BY <1>1, Bills
<1>3. UNCHANGED <<row, token, owing, bulk>>
  BY DEF AdjustFunding
<1>4. /\ paid[t] + owing[t] = copy[w].quota /\ token[t] + owing[t] = copy[w].quota
      /\ t \notin cut /\ row[t].quota = copy[w].quota /\ row[t].kind = copy[w].kind
      /\ t \notin bulk => row[t].status = copy[w].status
      /\ copy[w].status = "FAILURE" /\ copy[w].kind \in {"tiered", "perCall"}
            => due[w] = 0
  BY <1>1, <1>2 DEF MoneyOK, BillingOK
<1>5. CASE /\ paid' = [paid EXCEPT ![at[w]] = @ + Change(w)]
           /\ pc' = [pc EXCEPT ![w] = "token"]
           /\ UNCHANGED <<at, copy, from, due, faults, cut>>
  <2>1. /\ pc'[w] = "token"
        /\ \A v \in Workers \ {w} : pc'[v] = pc[v]
        /\ \A u \in Tasks \ {t} : paid'[u] = paid[u]
        /\ paid'[t] = paid[t] + (due[w] - copy[w].quota)
    BY <1>2, <1>5 DEF TypeOK, Change
  <2>2. paid'[t] + owing[t] = due[w]
    BY <1>2, <1>4, <2>1
  <2>3. MoneyOK(w)'
    BY <1>2, <1>3, <1>4, <1>5, <2>1, <2>2 DEF MoneyOK
  <2>4. t \notin bulk => ClearedOK(t)'
    BY <1>3, <1>4, <2>2 DEF ClearedOK, Charge, RefundedInFull
  <2>5. paid'[t] + owing[t] >= 0
    BY <1>2, <2>2
  <2> QED
    BY <1>1, <1>2, <1>3, <1>5, <2>1, <2>3, <2>4, <2>5, BillingGoesOn DEF Billing
<1>6. CASE Fault /\ CutShort(w) /\ Drop(w) /\ UNCHANGED paid
  <2>1. cut' = cut \cup {t}
    BY <1>2, <1>6 DEF CutShort
  <2>2. t \notin bulk => ClearedOK(t)' /\ HasItsMoneyBack(t)'
    BY <1>2, <1>3, <1>6, <2>1
    DEF TaskOK, ClearedOK, HasItsMoneyBack, Charge, RefundedInFull
  <2> QED
    BY <1>1, <1>2, <1>3, <1>6, <2>1, <2>2, BillingOver
<1> QED
  BY <1>5, <1>6 DEF AdjustFunding

LEMMA AdjustTokenStep ==
    ASSUME IInv, NEW w \in Workers, AdjustToken(w) PROVE IInv'
<1>1. pc[w] = "token" /\ pc[w] \in Billing /\ TypeOK'
  BY WorkerType DEF AdjustToken, Billing
<1>2. PICK t \in Tasks :
         /\ t = at[w] /\ TypeOK /\ TaskOK(t) /\ BillingOK(w) /\ MoneyOK(w)
         /\ paid[t] \in Int /\ token[t] \in Int /\ owing[t] \in Int
         /\ due[w] \in Nat /\ copy[w].quota \in Nat
  BY <1>1, Bills
<1>3. /\ UNCHANGED <<row, paid, owing, bulk, at, copy, from, due>>
      /\ pc'[w] = "quota"
      /\ \A v \in Workers \ {w} : pc'[v] = pc[v]
  BY <1>2 DEF AdjustToken, TypeOK
<1>4. /\ paid[t] + owing[t] = due[w] /\ token[t] + owing[t] = copy[w].quota
      /\ t \notin cut
      /\ copy[w].status = "FAILURE" /\ copy[w].kind \in {"tiered", "perCall"}
            => due[w] = 0
  BY <1>1, <1>2 DEF MoneyOK
<1>5. /\ \A u \in Tasks \ {t} : token'[u] = token[u] /\ (u \in cut' <=> u \in cut)
      /\ t \notin cut' => token'[t] + owing[t] = due[w]
  <2>1. CASE token' = [token EXCEPT ![at[w]] = @ + Change(w)] /\ cut' = cut
    <3>1. token'[t] = token[t] + (due[w] - copy[w].quota)
      BY <1>2, <2>1 DEF TypeOK, Change
    <3> QED
      BY <1>2, <1>4, <2>1, <3>1 DEF TypeOK
  <2>2. CASE CutShort(w) /\ token' = token
    BY <1>2, <2>2 DEF CutShort
  <2> QED
    BY <2>1, <2>2 DEF AdjustToken
<1>6. MoneyOK(w)'
  BY <1>2, <1>3, <1>4, <1>5 DEF MoneyOK
<1>7. t \notin bulk => ClearedOK(t)'
  BY <1>2, <1>3 DEF TaskOK, ClearedOK, Charge, RefundedInFull
<1>8. paid'[t] + owing[t] >= 0
  BY <1>2, <1>3, <1>4
<1> QED
  BY <1>1, <1>2, <1>3, <1>5, <1>6, <1>7, <1>8, BillingGoesOn DEF Billing

LEMMA UpdateQuotaStep ==
    ASSUME IInv, NEW w \in Workers, UpdateQuota(w) PROVE IInv'
<1>1. pc[w] = "quota" /\ pc[w] \in Billing /\ TypeOK' /\ Drop(w)
  BY WorkerType DEF UpdateQuota, Billing
<1>2. PICK t \in Tasks :
         /\ t = at[w] /\ TypeOK /\ TaskOK(t) /\ BillingOK(w) /\ MoneyOK(w)
         /\ row[t] \in RowType
  BY <1>1, Bills
<1>3. UNCHANGED <<paid, token, owing, bulk>>
  BY DEF UpdateQuota, money
<1>4. /\ paid[t] + owing[t] = due[w]
      /\ t \notin cut => token[t] + owing[t] = due[w]
      /\ row[t].kind = copy[w].kind
      /\ t \notin bulk => row[t].status = copy[w].status
      /\ copy[w].status = "FAILURE" /\ copy[w].kind \in {"tiered", "perCall"}
            => due[w] = 0
  BY <1>1, <1>2 DEF MoneyOK, BillingOK
<1>5. CASE row' = [row EXCEPT ![at[w]].quota = due[w]] /\ cut' = cut
  <2>1. /\ row'[t] = [row[t] EXCEPT !.quota = due[w]]
        /\ \A u \in Tasks \ {t} : row'[u] = row[u]
    BY <1>2, <1>5 DEF TypeOK
  <2>2. /\ row'[t].quota = due[w] /\ row'[t].status = row[t].status
        /\ row'[t].kind = row[t].kind
    BY <1>2, <2>1 DEF RowType
  <2>3. t \notin bulk => ClearedOK(t)' /\ HasItsMoneyBack(t)'
    BY <1>3, <1>4, <2>2 DEF ClearedOK, HasItsMoneyBack, Charge, RefundedInFull
  <2> QED
    BY <1>1, <1>2, <1>3, <1>4, <1>5, <2>1, <2>2, <2>3, BillingOver
<1>6. CASE CutShort(w) /\ row' = row
  <2>1. cut' = cut \cup {t}
    BY <1>2, <1>6 DEF CutShort
  <2>2. t \notin bulk => ClearedOK(t)' /\ HasItsMoneyBack(t)'
    BY <1>2, <1>3, <1>6, <2>1
    DEF TaskOK, ClearedOK, HasItsMoneyBack, Charge, RefundedInFull
  <2> QED
    BY <1>1, <1>2, <1>3, <1>6, <2>1, <2>2, BillingOver
<1> QED
  BY <1>5, <1>6 DEF UpdateQuota

LEMMA CrashStep ==
    ASSUME IInv, NEW w \in Workers, Crash(w) PROVE IInv'
<1>1. /\ pc[w] # "idle" /\ TypeOK' /\ Drop(w)
      /\ UNCHANGED <<row, paid, token, owing, bulk>>
  BY WorkerType DEF Crash, money
<1>2. CASE pc[w] \in Billing
  <2>1. PICK t \in Tasks : t = at[w] /\ TaskOK(t)
    BY <1>2, Bills
  <2>2. cut' = cut \cup {t}
    BY <1>2, <2>1 DEF Crash
  <2>3. t \notin bulk => ClearedOK(t)' /\ HasItsMoneyBack(t)'
    BY <1>1, <2>1, <2>2
    DEF TaskOK, ClearedOK, HasItsMoneyBack, Charge, RefundedInFull
  <2> QED
    BY <1>1, <1>2, <2>1, <2>2, <2>3, BillingOver
<1>3. CASE pc[w] \notin Billing
  <2>1. cut' = cut
    BY <1>3 DEF Crash
  <2>2. pc[w] \in Reading
    BY <1>1, <1>3 DEF IInv, TypeOK, Labels, Reading
  <2> QED
    BY <1>1, <2>1, <2>2, LeaveStep
<1> QED
  BY <1>2, <1>3

LEMMA InsertStep ==
    ASSUME IInv, NEW t \in Tasks, Insert(t) PROVE IInv'
<1>1. TypeOK /\ TypeOK' /\ row[t].status = "absent" /\ TaskOK(t)
  BY InsertType DEF IInv, Insert
<1>2. PICK q \in Quotas, reserved \in Quotas, kind \in Kinds,
           first \in {"NOT_START", "SUCCESS", "FAILURE"} :
         /\ first = "FAILURE" => q = 0
         /\ row' = [row EXCEPT ![t] = NewRow(first, q, kind)]
         /\ paid' = [paid EXCEPT ![t] = reserved]
         /\ token' = [token EXCEPT ![t] = reserved]
         /\ owing' = [owing EXCEPT ![t] = q - reserved]
  BY InsertPick
<1>3. UNCHANGED <<pc, at, copy, from, due, cut, bulk>>
  BY DEF Insert, worker
<1>4. /\ row'[t].quota = q /\ paid'[t] = reserved /\ token'[t] = reserved
      /\ owing'[t] = q - reserved /\ row'[t].status = first
      /\ \A u \in Tasks \ {t} : SameTask(u)
      /\ q \in Nat /\ reserved \in Nat
  <2>1. q \in Nat /\ reserved \in Nat
    BY TaskPollingAssumption DEF Quotas
  <2> QED
    BY <1>1, <1>2, <1>3, <2>1, NewRowType DEF TypeOK, SameTask
<1>5. ASSUME NEW v \in Workers
      PROVE  pc[v] # "idle" => at[v] \in Tasks \ {t}
  BY <1>1, Busy
<1>6. ASSUME NEW v \in Workers PROVE WorkerOK(v)'
  <2>1. WorkerOK(v)
    BY DEF IInv
  <2>2. CASE pc[v] = "idle"
    BY <1>3, <2>1, <2>2 DEF WorkerOK, Reading, Billing
  <2>3. CASE pc[v] # "idle"
    <3>1. SameTask(at[v])
      BY <1>4, <1>5, <2>3
    <3>2. pc[v] \in Reading => ReadingOK(v)'
      BY <1>3, <2>1, <3>1 DEF WorkerOK, ReadingOK, SameTask
    <3>3. pc[v] \in Billing => BillingOK(v)' /\ MoneyOK(v)'
      BY <1>3, <2>1, <3>1 DEF WorkerOK, BillingOK, MoneyOK, SameTask
    <3> QED
      BY <1>3, <2>3, <3>2, <3>3 DEF WorkerOK
  <2> QED
    BY <2>2, <2>3
<1>7. OneBills'
  BY <1>3 DEF IInv, OneBills
<1>8. ASSUME NEW u \in Tasks PROVE TaskOK(u)'
  <2>1. CASE u = t
    <3>1. paid'[t] + owing'[t] = row'[t].quota /\ token'[t] + owing'[t] = row'[t].quota
      BY <1>4
    <3>2. t \notin cut
      BY <1>1 DEF TaskOK, OpenOK, Terminal
    <3> QED
      BY <1>2, <1>3, <1>4, <2>1, <3>1, <3>2
      DEF TaskOK, OpenOK, RecordOK, ClearedOK, HasItsMoneyBack, Charge
  <2>2. CASE u # t
    <3>1. SameTask(u) /\ TaskOK(u) /\ (BeingBilled(u)' <=> BeingBilled(u))
      BY <1>3, <1>4, <2>2 DEF IInv, BeingBilled
    <3> QED
      BY <3>1
      DEF SameTask, TaskOK, OpenOK, RecordOK, ClearedOK, HasItsMoneyBack, Charge,
          Legacy, RefundedInFull
  <2> QED
    BY <2>1, <2>2
<1> QED
  BY <1>1, <1>6, <1>7, <1>8 DEF IInv

\* The settlement moves money between the account and what is owed to it.
LEMMA SettleStep ==
    ASSUME IInv, NEW t \in Tasks, Settle(t) PROVE IInv'
<1>1. TypeOK /\ TypeOK'
  BY TypeStep DEF IInv, Next
<1>2. UNCHANGED <<row, pc, at, copy, from, due, cut, bulk>>
  BY DEF Settle, worker
<1>3. ASSUME NEW u \in Tasks
      PROVE  /\ paid'[u] + owing'[u] = paid[u] + owing[u]
             /\ token'[u] + owing'[u] = token[u] + owing[u]
  BY <1>1 DEF TypeOK, Settle
<1>4. ASSUME NEW v \in Workers PROVE WorkerOK(v)'
  <2>1. WorkerOK(v)
    BY DEF IInv
  <2>2. pc[v] \in Reading => ReadingOK(v)'
    BY <1>2, <2>1 DEF WorkerOK, ReadingOK
  <2>3. pc[v] \in Billing => BillingOK(v)'
    BY <1>2, <2>1 DEF WorkerOK, BillingOK
  <2>4. pc[v] \in Billing => MoneyOK(v)'
    BY <1>2, <1>3, <2>1 DEF WorkerOK, BillingOK, MoneyOK
  <2> QED
    BY <1>2, <2>1, <2>2, <2>3, <2>4 DEF WorkerOK
<1>5. OneBills'
  BY <1>2 DEF IInv, OneBills
<1>6. ASSUME NEW u \in Tasks PROVE TaskOK(u)'
  <2>1. TaskOK(u) /\ (BeingBilled(u)' <=> BeingBilled(u))
    BY <1>2 DEF IInv, BeingBilled
  <2> QED
    BY <1>2, <1>3, <2>1
    DEF TaskOK, OpenOK, RecordOK, ClearedOK, HasItsMoneyBack, Charge, Legacy,
        RefundedInFull
<1> QED
  BY <1>1, <1>4, <1>5, <1>6 DEF IInv

\* The invariant does not speak of the upstream's jobs.
LEMMA QuietStep ==
    ASSUME IInv, TypeOK',
           UNCHANGED <<row, paid, token, owing, pc, at, copy, from, due, cut, bulk>>
    PROVE  IInv'
<1>1. ASSUME NEW v \in Workers PROVE WorkerOK(v)'
  BY DEF IInv, WorkerOK, ReadingOK, BillingOK, MoneyOK
<1>2. OneBills'
  BY DEF IInv, OneBills
<1>3. ASSUME NEW u \in Tasks PROVE TaskOK(u)'
  BY DEF IInv, TaskOK, OpenOK, RecordOK, ClearedOK, HasItsMoneyBack, Charge, Legacy,
         RefundedInFull, BeingBilled
<1> QED
  BY <1>1, <1>2, <1>3 DEF IInv

LEMMA AbandonStep ==
    ASSUME IInv, NEW w \in Workers, Abandon(w) PROVE IInv'
<1>1. TypeOK' /\ pc[w] \in Reading
  BY WorkerType DEF Abandon, Reading
<1> QED
  BY <1>1, LeaveStep DEF Abandon, money

-----------------------------------------------------------------------------
(* The invariant holds in every state.                                     *)

LEMMA InitIInv == Init => IInv
<1> SUFFICES ASSUME Init PROVE IInv
  OBVIOUS
<1>1. TypeOK
  BY InitTypeOK
<1>2. ASSUME NEW w \in Workers PROVE WorkerOK(w)
  BY DEF Init, WorkerOK, Reading, Billing
<1>3. OneBills
  BY DEF Init, OneBills, Billing
<1>4. ASSUME NEW t \in Tasks PROVE TaskOK(t)
  BY DEF Init, TaskOK, OpenOK, RecordOK, ClearedOK, HasItsMoneyBack, Charge, NoRow
<1> QED
  BY <1>1, <1>2, <1>3, <1>4 DEF IInv

LEMMA NextIInv == IInv /\ [Next]_vars => IInv'
<1> SUFFICES ASSUME IInv, [Next]_vars PROVE IInv'
  OBVIOUS
<1>1. TypeOK'
  BY TypeStep
<1>2. CASE UNCHANGED vars
  BY <1>1, <1>2, QuietStep DEF vars
<1>3. ASSUME NEW t \in Tasks, Insert(t) \/ Settle(t) \/ UpstreamEnds(t) PROVE IInv'
  BY <1>1, <1>3, InsertStep, SettleStep, QuietStep DEF UpstreamEnds, money, worker
<1>4. ASSUME NEW w \in Workers, Step(w) PROVE IInv'
  BY <1>4, TakeStep, AnswerStep, WriteStep, SweepWriteStep, BillStep,
     AdjustFundingStep, AdjustTokenStep, UpdateQuotaStep DEF Step
<1>5. ASSUME NEW w \in Workers,
             SweepAny(w) \/ Abandon(w) \/ BulkFail(w) \/ Crash(w)
      PROVE  IInv'
  BY <1>5, TakeStep, AbandonStep, BulkFailStep, CrashStep DEF SweepAny
<1> QED
  BY <1>2, <1>3, <1>4, <1>5 DEF Next

LEMMA Invariance == Spec => []IInv
  BY InitIInv, NextIInv, PTL DEF Spec

-----------------------------------------------------------------------------
(* Theorems.                                                               *)

\* The rows, the accounts and the workers keep their types, whatever copies
\* overlapping passes write back (UpdateWithStatus, TaskBulkUpdateByID).
THEOREM TypeCorrect == Spec => []TypeOK
<1>1. IInv => TypeOK
  BY DEF IInv
<1> QED
  BY <1>1, Invariance, PTL

\* However many passes overlap, a task that nobody bills, and whose billing was
\* not cut short, has been charged exactly what its quota column says.
THEOREM RecordIsExact == Spec => []ChargeIsOnRecord
<1>1. IInv => ChargeIsOnRecord
  BY DEF IInv, ChargeIsOnRecord, TaskOK, RecordOK
<1> QED
  BY <1>1, Invariance, PTL

\* No interleaving of passes, errors and crashes refunds a task beyond its charge
\* (RefundTaskQuota, RecalculateTaskQuota).
THEOREM NoOverRefund == Spec => []NeverOverRefunded
<1>1. IInv => NeverOverRefunded
  BY DEF IInv, NeverOverRefunded, TaskOK
<1> QED
  BY <1>1, Invariance, PTL

\* A refund that was cut short stays visible: the quota of a task that a pass
\* failed reads 0 only once the money is back (RefundTaskQuota).
THEOREM ClearedIsRefunded == Spec => []ClearedMeansRefunded
<1>1. IInv => ClearedMeansRefunded
  BY DEF IInv, ClearedMeansRefunded, TaskOK, ClearedOK
<1> QED
  BY <1>1, Invariance, PTL

\* A task that a pass failed has its money back, unless its refund was cut short
\* (sweepTimedOutTasks, failTaskFromPoll, updateVideoSingleTask).
THEOREM PassRefunds == Spec => []FailedByPassIsRefunded
<1>1. IInv => FailedByPassIsRefunded
  BY DEF IInv, FailedByPassIsRefunded, TaskOK
<1> QED
  BY <1>1, Invariance, PTL

LEMMA EndStays ==
    ASSUME IInv, [Next]_vars, NEW t \in Tasks, row[t].status \in Terminal,
           t \notin bulk'
    PROVE  row'[t].status = row[t].status
<1>1. TypeOK /\ row[t] \in RowType /\ row[t].status \notin Open \cup {"absent"}
  BY DEF IInv, TypeOK, Open, Terminal
<1>2. ASSUME NEW u \in Tasks, Insert(u) PROVE row'[t].status = row[t].status
  <2>1. u # t
    BY <1>1, <1>2 DEF Insert
  <2>2. PICK r : row' = [row EXCEPT ![u] = r]
    BY <1>2, InsertPick
  <2> QED
    BY <1>1, <2>1, <2>2 DEF TypeOK
<1>3. ASSUME NEW w \in Workers, Write(w) \/ SweepWrite(w)
      PROVE  row'[t].status = row[t].status
  <2>1. ReadingOK(w)
    BY <1>3, Busy DEF Write, SweepWrite, Reading
  <2>2. row' = row \/ (Wins(w) /\ row' = [row EXCEPT ![at[w]] = copy[w]])
    BY <1>3 DEF Write, SweepWrite, Loses
  <2>3. Wins(w) => at[w] # t
    BY <1>1, <2>1 DEF Wins, ReadingOK
  <2> QED
    BY <1>1, <2>2, <2>3 DEF TypeOK
<1>4. ASSUME NEW w \in Workers, UpdateQuota(w) PROVE row'[t].status = row[t].status
  <2>1. row' = row \/ row' = [row EXCEPT ![at[w]].quota = due[w]]
    BY <1>4 DEF UpdateQuota
  <2>2. [row[t] EXCEPT !.quota = due[w]].status = row[t].status
    BY <1>1 DEF RowType
  <2> QED
    BY <1>1, <2>1, <2>2 DEF TypeOK
<1>5. ASSUME NEW w \in Workers, BulkFail(w) PROVE row'[t].status = row[t].status
  <2>1. at[w] # t
    BY <1>5 DEF BulkFail
  <2> QED
    BY <1>1, <1>5, <2>1 DEF BulkFail, TypeOK
<1>6. CASE row' = row
  BY <1>6
<1> QED
  <2>1. ASSUME NEW u \in Tasks, Settle(u) \/ UpstreamEnds(u) PROVE row' = row
    BY <2>1 DEF Settle, UpstreamEnds
  <2>2. ASSUME NEW w \in Workers,
               \/ \E u \in Tasks : Poll(w, u) \/ Sweep(w, u)
               \/ Answer(w) \/ Bill(w) \/ AdjustFunding(w) \/ AdjustToken(w)
               \/ Abandon(w) \/ Crash(w)
        PROVE  row' = row
    BY <2>2 DEF Poll, Sweep, Answer, Bill, AdjustFunding, AdjustToken, Abandon, Crash
  <2>3. CASE UNCHANGED vars
    BY <2>3 DEF vars
  <2> QED
    BY <1>2, <1>3, <1>4, <1>5, <1>6, <2>1, <2>2, <2>3 DEF Next, Step, SweepAny

\* An end is final: no stale copy a pass writes back (UpdateWithStatus) reopens a
\* task that has ended or turns one end into the other.
THEOREM EndsAreFinal == Spec => EndIsFinal
<1>1. IInv /\ [Next]_vars =>
        [\A t \in Tasks : row[t].status \in Terminal /\ t \notin bulk'
                             => row'[t].status = row[t].status]_vars
  BY EndStays
<1> QED
  BY <1>1, Invariance, PTL DEF Spec, EndIsFinal

-----------------------------------------------------------------------------
(* Midjourney: what a task has cost is on record, and a failed one gives it *)
(* back exactly once.                                                      *)

MjWorkers == MjHandlers \cup MjLoops
MjRows == [status : MjStatuses \cup {"none"}, full : BOOLEAN, quota : Nat, token : BOOLEAN]
MjPasses == [pc : {"idle", "ask", "pay", "payToken", "clear"}, copy : MjRows]
MjSubs == [pc : {"insert", "fund", "token", "record", "over"}, quota : Nat,
           token : BOOLEAN]

MjTyped ==
    /\ setup \in MjSetups
    /\ mjRow \in MjRows
    /\ sub \in MjSubs
    /\ mjWorker \in [MjWorkers -> MjPasses]
    /\ wallet \in Int /\ tokens \in Int /\ errors \in Nat
    /\ mjCut \in BOOLEAN /\ mjBulk \in BOOLEAN

\* The parts of the state.
LEMMA MjParts ==
    ASSUME MjTyped
    PROVE  /\ mjRow.full \in BOOLEAN
           /\ mjRow.quota \in Nat /\ mjRow.token \in BOOLEAN
           /\ sub.quota \in Nat /\ sub.token \in BOOLEAN
           /\ \A w \in MjWorkers :
                 /\ mjWorker[w] \in MjPasses /\ mjWorker[w].copy \in MjRows
                 /\ mjWorker[w].copy.quota \in Nat
                 /\ mjWorker[w].copy.token \in BOOLEAN
           /\ Midj!MaxErrors \in Nat
<1>1. Midj!MaxErrors \in Nat
  BY MidjourneyAssumption DEF MjTyped, Midj!MaxErrors
<1> QED
  BY <1>1 DEF MjTyped, MjRows, MjSubs, MjPasses

\* What an answer makes of the copy: the quota and the token stay, and the task
\* has failed if and only if its status says so.
LEMMA AppliedIs ==
    ASSUME NEW copy0 \in MjRows, NEW said \in MjItems
    PROVE  LET item == Midj!Adjusted(said)
               new == Midj!Applied(copy0, item)
           IN  /\ new \in MjRows
               /\ new.quota = copy0.quota /\ new.token = copy0.token
               /\ Midj!Failed(item) <=> new.status = "FAILURE"
               /\ new.status = "FAILURE" => new.full
<1> DEFINE item == Midj!Adjusted(said)
<1> DEFINE new == Midj!Applied(copy0, item)
<1>1. /\ said \in [status : MjStatuses, full : BOOLEAN, reason : BOOLEAN]
      /\ ~said.full => (said.reason <=> said.status = "FAILURE")
  BY MidjourneyAssumption
<1>2. /\ item \in [status : MjStatuses, full : BOOLEAN, reason : BOOLEAN]
      /\ ~item.full => (item.reason <=> item.status = "FAILURE")
  BY <1>1 DEF Midj!Adjusted, MjStatuses
<1> HIDE DEF item
<1>3. Midj!Failed(item) <=> item.status = "FAILURE"
  BY <1>2 DEF Midj!Failed
<1>4. new = [copy0 EXCEPT !.status = item.status,
                          !.full = item.full \/ Midj!Failed(item)]
  BY DEF Midj!Applied
<1>5. (item.full \/ Midj!Failed(item)) \in BOOLEAN
  OBVIOUS
<1>6. /\ new \in MjRows /\ new.quota = copy0.quota /\ new.token = copy0.token
      /\ new.status = item.status
      /\ new.full = (item.full \/ Midj!Failed(item))
  BY <1>2, <1>4, <1>5 DEF MjRows
<1>7. new.status = "FAILURE" => new.full
  BY <1>3, <1>6, Zenon
<1> QED
  BY <1>3, <1>6, <1>7 DEF item

\* A pass that wins writes what the answer made of its copy, and pays if that
\* is a failure with a price.
MjWrites(w, new) ==
    /\ mjRow.status = mjWorker[w].copy.status
    /\ new.quota = mjWorker[w].copy.quota /\ new.token = mjWorker[w].copy.token
    /\ new.status = "FAILURE" => new.full
    /\ mjRow' = new
    /\ mjWorker' = [mjWorker EXCEPT ![w] =
                       IF new.status = "FAILURE" /\ new.quota # 0
                       THEN [pc |-> "pay", copy |-> new] ELSE Midj!Idle]

LEMMA UpdateIs ==
    ASSUME MjTyped, NEW w \in MjWorkers, Midj!Update(w)
    PROVE  /\ mjWorker[w].pc = "ask"
           /\ errors' \in {errors, errors + 1}
           /\ UNCHANGED <<setup, sub, wallet, tokens, overdue, mjBulk, mjCut, mjCrashes>>
           /\ \/ /\ mjRow' = mjRow
                 /\ mjWorker' = [mjWorker EXCEPT ![w] = Midj!Idle]
              \/ \E new \in MjRows : MjWrites(w, new)
<1>1. mjWorker[w].copy \in MjRows
  BY MjParts
<1>2. PICK said \in MjItems :
         LET item == Midj!Adjusted(said)
             new == Midj!Applied(mjWorker[w].copy, item)
         IN \/ /\ Midj!Failing
               /\ mjWorker' = [mjWorker EXCEPT ![w] = Midj!Idle]
               /\ mjRow' = mjRow
            \/ /\ mjRow.status = mjWorker[w].copy.status
               /\ mjRow' = new
               /\ mjWorker' = [mjWorker EXCEPT ![w] =
                     IF Midj!Failed(item) /\ new.quota # 0
                     THEN [pc |-> "pay", copy |-> new] ELSE Midj!Idle]
               /\ errors' = errors
            \/ /\ mjWorker' = [mjWorker EXCEPT ![w] = Midj!Idle]
               /\ mjRow' = mjRow /\ errors' = errors
  BY DEF Midj!Update, Midj!Wins
<1> DEFINE item == Midj!Adjusted(said)
<1> DEFINE new == Midj!Applied(mjWorker[w].copy, item)
<1>3. /\ new \in MjRows
      /\ new.quota = mjWorker[w].copy.quota /\ new.token = mjWorker[w].copy.token
      /\ Midj!Failed(item) <=> new.status = "FAILURE"
      /\ new.status = "FAILURE" => new.full
  BY <1>1, AppliedIs
<1> HIDE DEF item, new
<1>4. \/ /\ Midj!Failing
         /\ mjWorker' = [mjWorker EXCEPT ![w] = Midj!Idle]
         /\ mjRow' = mjRow
      \/ /\ mjRow.status = mjWorker[w].copy.status
         /\ mjRow' = new
         /\ mjWorker' = [mjWorker EXCEPT ![w] =
               IF Midj!Failed(item) /\ new.quota # 0
               THEN [pc |-> "pay", copy |-> new] ELSE Midj!Idle]
         /\ errors' = errors
      \/ /\ mjWorker' = [mjWorker EXCEPT ![w] = Midj!Idle]
         /\ mjRow' = mjRow /\ errors' = errors
  BY <1>2 DEF item, new
<1>5. \/ /\ mjRow' = mjRow
         /\ mjWorker' = [mjWorker EXCEPT ![w] = Midj!Idle]
      \/ MjWrites(w, new)
  BY <1>3, <1>4 DEF MjWrites
<1>6. errors' \in {errors, errors + 1}
  BY <1>4 DEF Midj!Failing
<1>7. /\ mjWorker[w].pc = "ask"
      /\ UNCHANGED <<setup, sub, wallet, tokens, overdue, mjBulk, mjCut, mjCrashes>>
  BY DEF Midj!Update
<1> QED
  BY <1>3, <1>5, <1>6, <1>7

LEMMA MjIdle == Midj!Idle \in MjPasses /\ Midj!NoRow \in MjRows
  BY DEF Midj!Idle, Midj!NoRow, MjPasses, MjRows

\* The steps keep the types.
LEMMA MjTypedStep ==
    ASSUME MjTyped, Midj!Next
    PROVE  MjTyped'
<1>0. /\ Midj!Idle \in MjPasses /\ wallet \in Int /\ tokens \in Int /\ errors \in Nat
      /\ \A w \in MjWorkers : /\ mjWorker[w] \in MjPasses
                              /\ mjWorker[w].copy \in MjRows
                              /\ mjWorker[w].copy.quota \in Int
      /\ sub.quota \in Nat /\ \A b : Midj!Marker(b) \in Nat
      /\ mjRow \in MjRows /\ setup \in MjSetups /\ sub \in MjSubs
      /\ mjWorker \in [MjWorkers -> MjPasses]
      /\ mjCut \in BOOLEAN /\ mjBulk \in BOOLEAN
  BY MjParts, MjIdle, MidjourneyAssumption DEF Midj!Marker, MjTyped
<1>1. CASE Midj!Insert
  <2>1. CASE Midj!Failing /\ sub' = [sub EXCEPT !.pc = "over"] /\ mjRow' = mjRow
    BY <1>0, <1>1, <2>1 DEF Midj!Insert, Midj!Failing, MjTyped, MjSubs
  <2>2. ASSUME NEW billed \in BOOLEAN, NEW finished \in BOOLEAN,
               mjRow' = [status |-> IF finished THEN "SUCCESS" ELSE "NOT_START",
                         full |-> finished, quota |-> Midj!Marker(billed),
                         token |-> FALSE],
               sub' = [pc |-> IF billed THEN "fund" ELSE "over",
                       quota |-> Midj!Marker(billed), token |-> FALSE],
               errors' = errors
        PROVE  MjTyped'
    <3>1. mjRow' \in MjRows /\ sub' \in MjSubs
      BY <1>0, <2>2 DEF MjRows, MjSubs, MjStatuses
    <3> QED
      BY <1>0, <1>1, <2>2, <3>1 DEF Midj!Insert, MjTyped
  <2> QED
    BY <1>1, <2>1, <2>2 DEF Midj!Insert
<1>2. CASE Midj!Fund
  <2>0. \/ sub' = [pc |-> "record", quota |-> 0, token |-> FALSE]
        \/ sub' = [sub EXCEPT !.pc = "token"]
    BY <1>2 DEF Midj!Fund
  <2>3. /\ [pc |-> "record", quota |-> 0, token |-> FALSE] \in MjSubs
        /\ [sub EXCEPT !.pc = "token"] \in MjSubs
    BY <1>0 DEF MjSubs
  <2>1. sub' \in MjSubs
    BY <2>0, <2>3, Zenon
  <2>2. wallet' \in Int /\ errors' \in Nat
    BY <1>0, <1>2 DEF Midj!Fund, Midj!Failing
  <2> QED
    BY <1>0, <1>2, <2>1, <2>2 DEF Midj!Fund, MjTyped
<1>3. CASE Midj!Token
  <2>1. sub' \in MjSubs
    BY <1>0, <1>3 DEF Midj!Token, MjSubs
  <2>2. tokens' \in Int /\ errors' \in Nat
    BY <1>0, <1>3 DEF Midj!Token, Midj!Failing
  <2> QED
    BY <1>0, <1>3, <2>1, <2>2 DEF Midj!Token, MjTyped
<1>4. CASE Midj!Record
  <2>1. sub' \in MjSubs
    BY <1>0, <1>4 DEF Midj!Record, MjSubs
  <2>2. mjRow' \in MjRows
    BY <1>0, <1>4 DEF Midj!Record, MjSubs, MjRows
  <2>3. errors' \in Nat
    BY <1>0, <1>4 DEF Midj!Record, Midj!Failing
  <2>4. mjCut' \in BOOLEAN
    BY <1>0, <1>4, Zenon DEF Midj!Record
  <2> QED
    BY <1>0, <1>4, <2>1, <2>2, <2>3, <2>4 DEF Midj!Record, MjTyped
<1>5. CASE Midj!HourPasses
  BY <1>0, <1>5 DEF Midj!HourPasses, MjTyped
<1>6. CASE Midj!Crash
  BY <1>0, <1>6 DEF Midj!Crash, Midj!Workers, MjWorkers, MjTyped, MjSubs
<1>7. ASSUME NEW w \in MjWorkers, Midj!Pass(w) PROVE MjTyped'
  <2>1. CASE Midj!Read(w) \/ Midj!Unanswered(w)
    BY <1>0, <2>1 DEF Midj!Read, Midj!Unanswered, MjTyped, MjPasses
  <2>2. CASE Midj!BulkFail(w)
    BY <1>0, <2>2 DEF Midj!BulkFail, MjTyped, MjRows, MjStatuses
  <2>3. CASE Midj!Update(w)
    BY <1>0, <2>3, UpdateIs DEF MjWrites, MjTyped, MjPasses
  <2>4. CASE Midj!Pay(w)
    <3>1. [mjWorker[w] EXCEPT !.pc = "payToken"] \in MjPasses
      BY <1>0 DEF MjPasses
    <3>2. mjWorker' \in [MjWorkers -> MjPasses]
      BY <1>0, <2>4, <3>1 DEF Midj!Pay
    <3>3. wallet' \in Int /\ errors' \in Nat
      BY <1>0, <2>4 DEF Midj!Pay, Midj!Failing
    <3>4. mjCut' \in BOOLEAN
      BY <1>0, <2>4, Zenon DEF Midj!Pay
    <3> QED
      BY <1>0, <2>4, <3>2, <3>3, <3>4 DEF Midj!Pay, MjTyped
  <2>5. CASE Midj!PayToken(w)
    <3>1. Midj!TokenDue(mjWorker[w].copy) \in Int
      BY <1>0 DEF Midj!TokenDue
    <3>2. [mjWorker[w] EXCEPT !.pc = "clear"] \in MjPasses
      BY <1>0 DEF MjPasses
    <3>3. mjWorker' \in [MjWorkers -> MjPasses]
      BY <1>0, <2>5, <3>2 DEF Midj!PayToken
    <3>4. tokens' \in Int /\ errors' \in Nat
      BY <1>0, <2>5, <3>1 DEF Midj!PayToken, Midj!Failing
    <3>5. mjCut' \in BOOLEAN
      BY <1>0, <2>5, Zenon DEF Midj!PayToken
    <3> QED
      BY <1>0, <2>5, <3>3, <3>4, <3>5 DEF Midj!PayToken, MjTyped
  <2>6. CASE Midj!Clear(w)
    <3>1. [mjRow EXCEPT !.quota = 0, !.token = mjWorker[w].copy.token] \in MjRows
      BY <1>0, MjParts DEF MjRows
    <3>2. mjRow' \in MjRows
      BY <1>0, <2>6, <3>1 DEF Midj!Clear
    <3>3. mjWorker' \in [MjWorkers -> MjPasses]
      BY <1>0, <2>6 DEF Midj!Clear
    <3>4. errors' \in Nat
      BY <1>0, <2>6 DEF Midj!Clear, Midj!Failing
    <3>5. mjCut' \in BOOLEAN
      BY <1>0, <2>6, Zenon DEF Midj!Clear
    <3> QED
      BY <1>0, <2>6, <3>2, <3>3, <3>4, <3>5 DEF Midj!Clear, MjTyped
  <2> QED
    BY <1>7, <2>1, <2>2, <2>3, <2>4, <2>5, <2>6 DEF Midj!Pass
<1> QED
  BY <1>1, <1>2, <1>3, <1>4, <1>5, <1>6, <1>7
     DEF Midj!Next, Midj!Submission, Midj!Workers, MjWorkers

\* The row and the passes: a row that is not complete has not failed, so that a
\* pass which read it open cannot win once it has; one pass gives back.
Paying(w) == mjWorker[w].pc \in {"pay", "payToken", "clear"}

MjPassOK(w) ==
    /\ mjWorker[w].pc = "ask" => mjWorker[w].copy.status # "FAILURE"
    /\ mjWorker[w].pc # "idle" =>
          /\ w \in Midj!Active /\ sub.pc # "insert"
          /\ Midj!Early \/ sub.pc = "over"
    /\ Paying(w) => mjRow.status = "FAILURE"

MjRowInv ==
    /\ mjRow.status = "FAILURE" => mjRow.full
    /\ sub.pc = "insert" => mjRow = Midj!NoRow /\ sub.quota = 0 /\ ~sub.token
    /\ ~Midj!Early /\ sub.pc # "over" => mjRow.status # "FAILURE"
    /\ \A w \in MjWorkers : MjPassOK(w)
    /\ \A v, w \in MjWorkers : Paying(v) /\ Paying(w) => v = w

LEMMA MjSetupStays ==
    ASSUME setup' = setup
    PROVE  /\ Midj!Active' = Midj!Active /\ Midj!Early' = Midj!Early
           /\ Midj!Interrupted' = Midj!Interrupted /\ Midj!MaxErrors' = Midj!MaxErrors
           /\ Midj!Timely' = Midj!Timely /\ Midj!Orderly' = Midj!Orderly
  BY DEF Midj!Active, Midj!Early, Midj!Interrupted, Midj!MaxErrors, Midj!Timely,
     Midj!Orderly

\* A pass that ends, or the submission that goes on, leaves the order.
LEMMA MjPassEnds ==
    ASSUME MjTyped, MjRowInv, NEW w \in MjWorkers,
           mjWorker' = [mjWorker EXCEPT ![w] = Midj!Idle], setup' = setup,
           mjRow' = mjRow, sub' = sub
    PROVE  MjRowInv'
<1>1. /\ mjWorker'[w].pc = "idle"
      /\ \A v \in MjWorkers : v # w => mjWorker'[v] = mjWorker[v]
  BY DEF MjTyped, Midj!Idle
<1> QED
  BY <1>1, MjSetupStays DEF MjRowInv, MjPassOK, Paying

LEMMA MjSubMoves ==
    ASSUME MjTyped, MjRowInv, setup' = setup, mjWorker' = mjWorker,
           sub.pc # "insert", sub'.pc # "insert", sub'.pc = "over" \/ sub.pc # "over",
           mjRow'.status = mjRow.status, mjRow'.full = mjRow.full
    PROVE  MjRowInv'
  BY MjSetupStays DEF MjRowInv, MjPassOK, Paying

LEMMA MjRowStep ==
    ASSUME MjTyped, MjRowInv, Midj!Next
    PROVE  MjRowInv'
<1> USE DEF MjTyped
<1>0. \A w \in MjWorkers : mjWorker[w] \in MjPasses /\ mjWorker[w].copy \in MjRows
  BY MjParts
<1>1. CASE Midj!Insert
  <2>1. /\ sub.pc = "insert" /\ sub'.pc # "insert" /\ mjWorker' = mjWorker
        /\ setup' = setup /\ mjRow'.status # "FAILURE"
    BY <1>1 DEF Midj!Insert, MjRowInv, Midj!NoRow, MjSubs
  <2>2. \A w \in MjWorkers : mjWorker[w].pc = "idle"
    BY <2>1 DEF MjRowInv, MjPassOK
  <2> QED
    BY <2>1, <2>2, MjSetupStays DEF MjRowInv, MjPassOK, Paying
<1>2. CASE Midj!Fund
  <2>1. /\ sub.pc = "fund" /\ sub'.pc \in {"record", "token"} /\ mjWorker' = mjWorker
        /\ setup' = setup /\ mjRow' = mjRow
    BY <1>2 DEF Midj!Fund, MjSubs
  <2> QED
    BY <2>1, MjSubMoves
<1>3. CASE Midj!Token
  <2>1. /\ sub.pc = "token" /\ sub'.pc = "record" /\ mjWorker' = mjWorker
        /\ setup' = setup /\ mjRow' = mjRow
    BY <1>3 DEF Midj!Token, MjSubs
  <2> QED
    BY <2>1, MjSubMoves
<1>4. CASE Midj!Record
  <2>1. /\ sub.pc = "record" /\ sub'.pc = "over" /\ mjWorker' = mjWorker
        /\ setup' = setup
        /\ mjRow'.status = mjRow.status /\ mjRow'.full = mjRow.full
    BY <1>4 DEF Midj!Record, MjSubs, MjRows
  <2> QED
    BY <2>1, MjSubMoves
<1>5. CASE Midj!HourPasses
  BY <1>5, MjSetupStays DEF Midj!HourPasses, MjRowInv, MjPassOK, Paying
<1>6. CASE Midj!Crash
  <2>1. setup' = setup /\ mjRow' = mjRow
    BY <1>6 DEF Midj!Crash
  <2>2. ASSUME NEW w \in MjWorkers, mjWorker' = [mjWorker EXCEPT ![w] = Midj!Idle],
               sub' = sub
        PROVE  MjRowInv'
    BY <2>1, <2>2, MjPassEnds
  <2>3. CASE sub' = [sub EXCEPT !.pc = "over"] /\ sub.pc # "over" /\ mjWorker' = mjWorker
    <3>1. sub'.pc = "over"
      BY <2>3 DEF MjSubs
    <3> QED
      BY <2>1, <2>3, <3>1, MjSetupStays DEF MjRowInv, MjPassOK, Paying
  <2> QED
    BY <1>6, <2>2, <2>3 DEF Midj!Crash, Midj!Workers, MjWorkers
<1>7. ASSUME NEW w \in MjWorkers, Midj!Pass(w) PROVE MjRowInv'
  <2>0. MjPassOK(w)
    BY DEF MjRowInv
  <2>1. CASE Midj!Read(w)
    <3>1. /\ mjWorker'[w] = [pc |-> "ask", copy |-> mjRow]
          /\ \A v \in MjWorkers : v # w => mjWorker'[v] = mjWorker[v]
          /\ ~mjRow.full /\ w \in Midj!Active /\ (Midj!Early \/ sub.pc = "over")
          /\ setup' = setup /\ mjRow' = mjRow /\ sub' = sub
      BY <2>1 DEF Midj!Read
    <3>2. mjRow.status # "FAILURE" /\ sub.pc # "insert"
      BY <3>1 DEF MjRowInv, Midj!NoRow
    <3> QED
      BY <3>1, <3>2, MjSetupStays DEF MjRowInv, MjPassOK, Paying
  <2>2. CASE Midj!Unanswered(w)
    BY <2>2, MjPassEnds DEF Midj!Unanswered
  <2>3. CASE Midj!BulkFail(w)
    <3>1. /\ mjWorker'[w].pc = "idle" /\ mjWorker[w].pc = "ask"
          /\ \A v \in MjWorkers : v # w => mjWorker'[v] = mjWorker[v]
          /\ setup' = setup /\ sub' = sub
      BY <2>3 DEF Midj!BulkFail, Midj!Idle
    <3>2. mjRow'.status = "FAILURE" /\ mjRow'.full = TRUE
      BY <2>3 DEF Midj!BulkFail, MjRows
    <3> QED
      BY <2>0, <3>1, <3>2, MjSetupStays DEF MjRowInv, MjPassOK, Paying
  <2>4. CASE Midj!Update(w)
    <3>1. /\ mjWorker[w].pc = "ask" /\ setup' = setup /\ sub' = sub
          /\ \/ /\ mjRow' = mjRow
                /\ mjWorker' = [mjWorker EXCEPT ![w] = Midj!Idle]
             \/ \E new \in MjRows : MjWrites(w, new)
      BY <2>4, UpdateIs
    <3>2. ASSUME NEW new \in MjRows, MjWrites(w, new) PROVE MjRowInv'
      <4>1. mjRow.status # "FAILURE"
        BY <2>0, <3>1, <3>2 DEF MjPassOK, MjWrites
      <4>2. \A v \in MjWorkers : ~Paying(v)
        BY <4>1 DEF MjRowInv, MjPassOK
      <4>3. /\ \A v \in MjWorkers : v # w => mjWorker'[v] = mjWorker[v]
            /\ mjWorker'[w].pc \in {"idle", "pay"}
            /\ mjWorker'[w].pc = "pay" => mjRow'.status = "FAILURE"
            /\ mjRow'.status = "FAILURE" => mjRow'.full
        BY <3>2 DEF MjWrites, Midj!Idle
      <4> QED
        BY <2>0, <3>1, <4>2, <4>3, MjSetupStays DEF MjRowInv, MjPassOK, Paying
    <3> QED
      BY <3>1, <3>2, MjPassEnds
  <2>5. CASE Midj!Pay(w) \/ Midj!PayToken(w)
    <3>1. /\ mjWorker[w].pc \in {"pay", "payToken"}
          /\ mjWorker'[w].pc \in {"idle", "payToken", "clear"}
          /\ \A v \in MjWorkers : v # w => mjWorker'[v] = mjWorker[v]
          /\ setup' = setup /\ sub' = sub /\ mjRow' = mjRow
      BY <1>0, <2>5 DEF Midj!Pay, Midj!PayToken, Midj!Idle, MjPasses
    <3> QED
      BY <2>0, <3>1, MjSetupStays DEF MjRowInv, MjPassOK, Paying
  <2>6. CASE Midj!Clear(w)
    <3>1. /\ mjWorker[w].pc = "clear" /\ mjWorker'[w].pc = "idle"
          /\ \A v \in MjWorkers : v # w => mjWorker'[v] = mjWorker[v]
          /\ setup' = setup /\ sub' = sub
      BY <1>0, <2>6 DEF Midj!Clear, Midj!Idle
    <3>2. mjRow'.status = mjRow.status /\ mjRow'.full = mjRow.full
      BY <1>0, <2>6 DEF Midj!Clear, MjRows
    <3> QED
      BY <2>0, <3>1, <3>2, MjSetupStays DEF MjRowInv, MjPassOK, Paying
  <2> QED
    BY <1>7, <2>1, <2>2, <2>3, <2>4, <2>5, <2>6 DEF Midj!Pass
<1> QED
  BY <1>1, <1>2, <1>3, <1>4, <1>5, <1>6, <1>7
     DEF Midj!Next, Midj!Submission, Midj!Workers, MjWorkers

\* What the submission has taken from the wallet, and whether the failed task
\* has given it back.
MjTaken == IF sub.pc \in {"insert", "fund"} THEN 0 ELSE sub.quota
MjRefunded ==
    mjRow.status = "FAILURE" /\ \A w \in MjWorkers : mjWorker[w].pc # "pay"

\* The wallet: an open row and the passes know what was taken, and a failed task
\* gives it back once.
MjWalletOK ==
    /\ ~mjRow.full /\ (Midj!Early \/ sub.pc = "over") => mjRow.quota = sub.quota
    /\ \A w \in MjWorkers :
          mjWorker[w].pc \in {"ask", "pay"} => mjWorker[w].copy.quota = sub.quota
    /\ wallet = MjTaken - (IF MjRefunded THEN sub.quota ELSE 0)

MjWalletInv == Midj!Timely /\ ~mjCut /\ ~mjBulk => MjWalletOK

\* The histories only grow.
LEMMA MjHistory ==
    ASSUME MjTyped, Midj!Next
    PROVE  /\ setup' = setup
           /\ mjCut => mjCut'
           /\ mjBulk => mjBulk'
<1>1. CASE Midj!Submission
  BY <1>1 DEF MjTyped, Midj!Submission, Midj!Insert, Midj!Fund, Midj!Token, Midj!Record
<1>2. CASE Midj!HourPasses \/ Midj!Crash
  BY <1>2 DEF MjTyped, Midj!HourPasses, Midj!Crash
<1>3. ASSUME NEW w \in MjWorkers, Midj!Pass(w)
      PROVE  /\ setup' = setup
             /\ mjCut => mjCut'
             /\ mjBulk => mjBulk'
  BY <1>3 DEF MjTyped, Midj!Pass, Midj!Read, Midj!BulkFail, Midj!Unanswered,
     Midj!Update, Midj!Pay, Midj!PayToken, Midj!Clear
<1> QED
  BY <1>1, <1>2, <1>3 DEF Midj!Next, Midj!Workers, MjWorkers

\* A statement fails only within the bound.
LEMMA MjNoError ==
    ASSUME MjTyped, Midj!Timely, Midj!Early
    PROVE  ~Midj!Failing
<1>1. Midj!MaxErrors = 0 /\ errors \in Nat
  BY DEF Midj!Timely, MjTyped
<1> QED
  BY <1>1 DEF Midj!Failing

\* The submission: nothing is read before it is over, or no statement fails.
LEMMA MjWalletSubmission ==
    ASSUME MjTyped, MjRowInv, Midj!Timely, MjWalletOK, Midj!Submission, ~mjCut'
    PROVE  MjWalletOK'
<1>0. /\ sub \in MjSubs /\ sub.quota \in Nat /\ mjRow \in MjRows
      /\ wallet \in Int
      /\ \A w \in MjWorkers : MjPassOK(w)
      /\ \A b : Midj!Marker(b) \in Nat
  BY MjParts, MidjourneyAssumption DEF MjTyped, MjRowInv, Midj!Marker
<1>1. /\ mjWorker' = mjWorker /\ setup' = setup /\ Midj!Early' = Midj!Early
  BY MjSetupStays DEF Midj!Submission, Midj!Insert, Midj!Fund, Midj!Token, Midj!Record
<1>2. CASE Midj!Insert
  <2>1. /\ sub.pc = "insert" /\ mjRow = Midj!NoRow /\ sub.quota = 0 /\ wallet' = wallet
    BY <1>2 DEF Midj!Insert, MjRowInv
  <2>2. \A w \in MjWorkers : mjWorker[w].pc = "idle"
    BY <1>0, <2>1 DEF MjPassOK
  <2>3. wallet = 0
    BY <2>1 DEF MjWalletOK, MjTaken, MjRefunded, Midj!NoRow
  <2>4. /\ mjRow'.status # "FAILURE"
        /\ ~mjRow'.full => mjRow'.quota = sub'.quota
        /\ sub'.pc = "fund" \/ (sub'.pc = "over" /\ sub'.quota = 0)
    <3>1. CASE sub' = [sub EXCEPT !.pc = "over"] /\ mjRow' = mjRow
      BY <1>0, <2>1, <3>1 DEF MjSubs, Midj!NoRow
    <3>2. ASSUME NEW billed \in BOOLEAN, NEW finished \in BOOLEAN,
                 mjRow' = [status |-> IF finished THEN "SUCCESS" ELSE "NOT_START",
                           full |-> finished, quota |-> Midj!Marker(billed),
                           token |-> FALSE],
                 sub' = [pc |-> IF billed THEN "fund" ELSE "over",
                         quota |-> Midj!Marker(billed), token |-> FALSE]
          PROVE  /\ mjRow'.status # "FAILURE"
                 /\ ~mjRow'.full => mjRow'.quota = sub'.quota
                 /\ sub'.pc = "fund" \/ (sub'.pc = "over" /\ sub'.quota = 0)
      BY <1>0, <3>2 DEF Midj!Marker
    <3> QED
      BY <1>2, <3>1, <3>2 DEF Midj!Insert
  <2> QED
    BY <1>1, <2>1, <2>2, <2>3, <2>4 DEF MjWalletOK, MjTaken, MjRefunded
<1>3. CASE Midj!Fund
  <2>1. sub.pc = "fund" /\ mjRow' = mjRow
    BY <1>3 DEF Midj!Fund
  <2>2. CASE Midj!Failing /\ sub' = [pc |-> "record", quota |-> 0, token |-> FALSE]
                /\ wallet' = wallet
    <3>1. ~Midj!Early
      BY <2>2, MjNoError
    <3>2. /\ mjRow.status # "FAILURE"
          /\ \A w \in MjWorkers : mjWorker[w].pc = "idle"
      BY <1>0, <2>1, <3>1 DEF MjRowInv, MjPassOK
    <3> QED
      BY <1>0, <1>1, <2>1, <2>2, <3>1, <3>2 DEF MjWalletOK, MjTaken, MjRefunded
  <2>3. CASE wallet' = wallet + sub.quota /\ sub' = [sub EXCEPT !.pc = "token"]
    <3>1. sub'.pc = "token" /\ sub'.quota = sub.quota
      BY <1>0, <2>3 DEF MjSubs
    <3> QED
      BY <1>0, <1>1, <2>1, <2>3, <3>1 DEF MjWalletOK, MjTaken, MjRefunded
  <2> QED
    BY <1>3, <2>2, <2>3 DEF Midj!Fund
<1>4. CASE Midj!Token
  <2>1. /\ sub.pc = "token" /\ sub'.pc = "record" /\ sub'.quota = sub.quota
        /\ mjRow' = mjRow /\ wallet' = wallet
    BY <1>0, <1>4 DEF Midj!Token, MjSubs
  <2> QED
    BY <1>0, <1>1, <2>1 DEF MjWalletOK, MjTaken, MjRefunded
<1>5. CASE Midj!Record
  <2>1. /\ sub.pc = "record" /\ sub'.pc = "over" /\ sub'.quota = sub.quota
        /\ wallet' = wallet
        /\ mjRow' = [mjRow EXCEPT !.quota = sub.quota, !.token = sub.token]
    BY <1>0, <1>5 DEF Midj!Record, MjSubs
  <2>2. mjRow'.status = mjRow.status /\ mjRow'.quota = sub.quota
    BY <1>0, <2>1 DEF MjRows
  <2> QED
    BY <1>0, <1>1, <2>1, <2>2 DEF MjWalletOK, MjTaken, MjRefunded
<1> QED
  BY <1>2, <1>3, <1>4, <1>5 DEF Midj!Submission

\* A pass: only the one that found the task failed gives back.
LEMMA MjWalletPass ==
    ASSUME MjTyped, MjRowInv, MjWalletOK, NEW w \in MjWorkers, Midj!Pass(w),
           ~mjCut', ~mjBulk'
    PROVE  MjWalletOK'
<1>0. /\ sub.quota \in Nat /\ mjRow \in MjRows /\ wallet \in Int
      /\ mjWorker \in [MjWorkers -> MjPasses]
      /\ mjWorker[w] \in MjPasses /\ mjWorker[w].copy \in MjRows
      /\ MjPassOK(w)
      /\ MjTaken \in Int
  BY MjParts DEF MjTyped, MjRowInv, MjTaken
<1>1. CASE Midj!Read(w)
  <2>1. /\ mjWorker'[w] = [pc |-> "ask", copy |-> mjRow]
        /\ mjWorker[w].pc = "idle"
        /\ \A v \in MjWorkers : v # w => mjWorker'[v] = mjWorker[v]
        /\ ~mjRow.full /\ (Midj!Early \/ sub.pc = "over")
        /\ setup' = setup /\ mjRow' = mjRow /\ sub' = sub /\ wallet' = wallet
    BY <1>0, <1>1 DEF Midj!Read
  <2> QED
    BY <2>1, MjSetupStays DEF MjWalletOK, MjTaken, MjRefunded
<1>2. ASSUME mjWorker[w].pc = "ask", mjWorker' = [mjWorker EXCEPT ![w] = Midj!Idle],
             mjRow' = mjRow, setup' = setup, sub' = sub, wallet' = wallet
      PROVE  MjWalletOK'
  <2>1. /\ mjWorker'[w].pc = "idle"
        /\ \A v \in MjWorkers : v # w => mjWorker'[v] = mjWorker[v]
    BY <1>0, <1>2 DEF Midj!Idle
  <2> QED
    BY <1>2, <2>1, MjSetupStays DEF MjWalletOK, MjTaken, MjRefunded
<1>3. CASE Midj!Unanswered(w)
  BY <1>2, <1>3 DEF Midj!Unanswered
<1>4. CASE Midj!BulkFail(w)
  BY <1>4 DEF Midj!BulkFail
<1>5. CASE Midj!Update(w)
  <2>1. /\ mjWorker[w].pc = "ask" /\ setup' = setup /\ sub' = sub /\ wallet' = wallet
        /\ \/ /\ mjRow' = mjRow
              /\ mjWorker' = [mjWorker EXCEPT ![w] = Midj!Idle]
           \/ \E new \in MjRows : MjWrites(w, new)
    BY <1>5, UpdateIs
  <2>2. ASSUME NEW new \in MjRows, MjWrites(w, new) PROVE MjWalletOK'
    <3>1. mjRow.status # "FAILURE" /\ new.quota = sub.quota
      BY <1>0, <2>1, <2>2 DEF MjPassOK, MjWrites, MjWalletOK
    <3>2. wallet = MjTaken
      BY <1>0, <3>1 DEF MjWalletOK, MjRefunded
    <3>3. /\ \A v \in MjWorkers : v # w => mjWorker'[v] = mjWorker[v]
          /\ mjRow' = new
          /\ mjWorker'[w] = IF new.status = "FAILURE" /\ new.quota # 0
                            THEN [pc |-> "pay", copy |-> new] ELSE Midj!Idle
      BY <1>0, <2>2 DEF MjWrites
    <3>4. /\ mjWorker'[w].pc = "pay" => mjWorker'[w].copy.quota = sub.quota
          /\ mjWorker'[w].pc # "ask"
          /\ new.status = "FAILURE" /\ mjWorker'[w].pc # "pay" => sub.quota = 0
      BY <3>1, <3>3 DEF Midj!Idle
    <3>5. MjTaken' = MjTaken /\ (MjRefunded' => sub'.quota = 0)
      BY <2>1, <3>3, <3>4 DEF MjTaken, MjRefunded
    <3> QED
      BY <1>0, <2>1, <3>1, <3>2, <3>3, <3>4, <3>5, MjSetupStays DEF MjWalletOK
  <2> QED
    BY <1>2, <2>1, <2>2
<1>6. CASE Midj!Pay(w)
  <2>1. /\ mjWorker[w].pc = "pay" /\ setup' = setup /\ sub' = sub /\ mjRow' = mjRow
        /\ wallet' = wallet - mjWorker[w].copy.quota
        /\ mjWorker'[w].pc \in {"idle", "payToken"}
        /\ \A v \in MjWorkers : v # w => mjWorker'[v] = mjWorker[v]
    BY <1>0, <1>6 DEF Midj!Pay, Midj!Idle, MjPasses
  <2>2. \A v \in MjWorkers : v # w => mjWorker[v].pc # "pay"
    BY <2>1 DEF MjRowInv, Paying
  <2>3. MjRefunded' /\ ~MjRefunded /\ MjTaken' = MjTaken
    BY <1>0, <2>1, <2>2 DEF MjRefunded, MjTaken, MjPassOK, Paying
  <2>4. mjWorker[w].copy.quota = sub.quota /\ wallet = MjTaken
    BY <1>0, <2>1, <2>3 DEF MjWalletOK
  <2>5. wallet' = MjTaken' - sub'.quota
    BY <2>1, <2>3, <2>4
  <2> QED
    BY <2>1, <2>3, <2>5, MjSetupStays DEF MjWalletOK
<1>7. CASE Midj!PayToken(w) \/ Midj!Clear(w)
  <2>1. /\ mjWorker[w].pc \in {"payToken", "clear"} /\ setup' = setup /\ sub' = sub
        /\ wallet' = wallet
        /\ mjWorker'[w].pc \in {"idle", "clear"}
        /\ \A v \in MjWorkers : v # w => mjWorker'[v] = mjWorker[v]
    BY <1>0, <1>7 DEF Midj!PayToken, Midj!Clear, Midj!Idle, MjPasses
  <2>2. mjRow'.status = mjRow.status /\ mjRow'.full = mjRow.full
    BY <1>0, <1>7 DEF Midj!PayToken, Midj!Clear, MjRows
  <2>3. mjRow.full
    BY <1>0, <2>1 DEF MjRowInv, MjPassOK, Paying
  <2> QED
    BY <2>1, <2>2, <2>3, MjSetupStays DEF MjWalletOK, MjTaken, MjRefunded
<1> QED
  BY <1>1, <1>3, <1>4, <1>5, <1>6, <1>7 DEF Midj!Pass

LEMMA MjWalletStep ==
    ASSUME MjTyped, MjRowInv, MjWalletInv, Midj!Next
    PROVE  MjWalletInv'
<1>1. SUFFICES ASSUME Midj!Timely', ~mjCut', ~mjBulk'
               PROVE  MjWalletOK'
  BY DEF MjWalletInv
<1>2. setup' = setup /\ Midj!Timely /\ ~mjCut /\ ~mjBulk
  BY <1>1, MjHistory, MjSetupStays
<1>3. MjWalletOK /\ sub.quota \in Nat /\ mjWorker \in [MjWorkers -> MjPasses]
      /\ sub \in MjSubs
  BY <1>2, MjParts DEF MjWalletInv, MjTyped
<1>4. CASE Midj!HourPasses
  BY <1>3, <1>4, MjSetupStays DEF Midj!HourPasses, MjWalletOK, MjTaken, MjRefunded
<1>5. CASE Midj!Crash
  <2>1. mjRow' = mjRow /\ wallet' = wallet
    BY <1>5 DEF Midj!Crash
  <2>2. ASSUME NEW w \in MjWorkers, mjWorker[w].pc # "idle",
               mjWorker' = [mjWorker EXCEPT ![w] = Midj!Idle],
               mjCut' = (mjCut \/ mjWorker[w].pc # "ask"), sub' = sub
        PROVE  MjWalletOK'
    <3>1. mjWorker[w].pc = "ask"
      BY <1>1, <2>2
    <3>2. /\ mjWorker'[w].pc = "idle"
          /\ \A v \in MjWorkers : v # w => mjWorker'[v] = mjWorker[v]
      BY <1>3, <2>2 DEF Midj!Idle
    <3> QED
      BY <1>2, <1>3, <2>1, <2>2, <3>1, <3>2, MjSetupStays
         DEF MjWalletOK, MjTaken, MjRefunded
  <2>3. CASE sub' = [sub EXCEPT !.pc = "over"] /\ mjWorker' = mjWorker
                /\ mjCut' = (mjCut \/ sub.pc # "insert")
    <3>1. sub.pc = "insert" /\ sub'.pc = "over" /\ sub'.quota = 0 /\ sub.quota = 0
      BY <1>1, <1>3, <2>3 DEF MjRowInv, MjSubs
    <3>2. mjRow.full /\ mjRow.status # "FAILURE"
      BY <3>1 DEF MjRowInv, Midj!NoRow
    <3> QED
      BY <1>2, <1>3, <2>1, <2>3, <3>1, <3>2, MjSetupStays
         DEF MjWalletOK, MjTaken, MjRefunded
  <2> QED
    BY <1>5, <2>2, <2>3 DEF Midj!Crash, Midj!Workers, MjWorkers
<1>6. CASE Midj!Submission
  BY <1>1, <1>2, <1>3, <1>6, MjWalletSubmission
<1>7. ASSUME NEW w \in MjWorkers, Midj!Pass(w) PROVE MjWalletOK'
  BY <1>1, <1>3, <1>7, MjWalletPass
<1> QED
  BY <1>4, <1>5, <1>6, <1>7 DEF Midj!Next, Midj!Workers, MjWorkers

\* With the handler alone: what the token has given is what a record says, unless
\* a statement failed that would have written it.
MjDue(r) == IF r.token THEN r.quota ELSE 0
MjHolds(r) == /\ r.token => tokens = r.quota
              /\ ~mjCut => tokens = MjDue(r)

MjSubOK ==
    /\ sub.pc \in {"insert", "fund", "token"} => tokens = 0 /\ ~sub.token
    /\ sub.pc \in {"insert", "fund"} => wallet = 0
    /\ sub.pc \in {"fund", "token"} => mjRow.quota = sub.quota
    /\ sub.pc \in {"token", "record"} => wallet = sub.quota
    /\ sub.pc = "record" => tokens = MjDue(sub) /\ (errors = 0 => mjRow.quota = sub.quota)
    /\ sub.pc # "over" => ~mjRow.token

MjPayerOK(w) ==
    /\ mjWorker[w].pc = "ask" /\ mjRow.status # "FAILURE" =>
          mjWorker[w].copy.quota = mjRow.quota /\ mjWorker[w].copy.token = mjRow.token
    /\ mjWorker[w].pc = "pay" => wallet = mjWorker[w].copy.quota
    /\ mjWorker[w].pc \in {"payToken", "clear"} => wallet = 0
    /\ mjWorker[w].pc \in {"pay", "payToken"} => MjHolds(mjWorker[w].copy)
    /\ mjWorker[w].pc = "clear" => (~mjCut => tokens = 0)

MjOpenOK ==
    sub.pc = "over" /\ mjRow.status # "FAILURE" => wallet = mjRow.quota /\ MjHolds(mjRow)

MjClosedOK ==
    sub.pc = "over" /\ ~mjCut /\ (\A w \in MjWorkers : ~Paying(w)) =>
        /\ wallet = mjRow.quota /\ tokens = MjDue(mjRow)
        /\ mjRow.status = "FAILURE" /\ ~mjBulk => mjRow.quota = 0

MjOrderlyOK ==
    /\ wallet >= 0 /\ tokens >= 0
    /\ MjSubOK
    /\ \A w \in MjWorkers : MjPayerOK(w)
    /\ MjOpenOK
    /\ MjClosedOK

MjOrderlyInv == Midj!Orderly => MjOrderlyOK

\* The submission, before any pass has read the row.
LEMMA MjOrderlySubmission ==
    ASSUME MjTyped, MjRowInv, Midj!Orderly, MjOrderlyOK, Midj!Submission
    PROVE  MjOrderlyOK'
<1>0. /\ sub \in MjSubs /\ sub.quota \in Nat /\ sub.token \in BOOLEAN
      /\ mjRow \in MjRows /\ mjRow.quota \in Nat
      /\ wallet \in Int /\ tokens \in Int /\ errors \in Nat
      /\ mjCut \in BOOLEAN
      /\ Midj!MaxErrors \in Nat /\ Midj!MaxErrors <= 1
      /\ MjSubOK
      /\ \A b : Midj!Marker(b) \in Nat
  BY MjParts, MidjourneyAssumption DEF MjTyped, Midj!Marker, Midj!Orderly, MjOrderlyOK
<1>1. mjWorker' = mjWorker /\ sub.pc # "over"
  BY DEF Midj!Submission, Midj!Insert, Midj!Fund, Midj!Token, Midj!Record
<1>2. /\ \A w \in MjWorkers : mjWorker'[w].pc = "idle"
      /\ mjRow.status # "FAILURE" /\ ~mjRow.token
  BY <1>0, <1>1 DEF MjRowInv, MjPassOK, Midj!Orderly, MjSubOK
<1>3. \A w \in MjWorkers : MjPayerOK(w)'
  BY <1>2 DEF MjPayerOK
<1>4. SUFFICES ASSUME TRUE
               PROVE  /\ wallet' >= 0 /\ tokens' >= 0
                      /\ MjSubOK'
                      /\ sub'.pc = "over" =>
                            /\ wallet' = mjRow'.quota /\ MjHolds(mjRow)'
                            /\ mjRow'.status # "FAILURE"
  BY <1>2, <1>3 DEF MjOrderlyOK, MjOpenOK, MjClosedOK, MjHolds
<1>5. CASE Midj!Insert
  <2>1. /\ sub.pc = "insert" /\ wallet' = wallet /\ tokens' = tokens /\ mjCut' = mjCut
        /\ mjRow = Midj!NoRow /\ sub.quota = 0
    BY <1>5 DEF Midj!Insert, MjRowInv
  <2>2. wallet = 0 /\ tokens = 0 /\ ~sub.token
    BY <1>0, <2>1 DEF MjSubOK
  <2>3. /\ mjRow'.status # "FAILURE" /\ ~mjRow'.token /\ ~sub'.token
        /\ mjRow'.quota = sub'.quota
        /\ sub'.pc = "fund" \/ (sub'.pc = "over" /\ sub'.quota = 0)
    <3>1. CASE sub' = [sub EXCEPT !.pc = "over"] /\ mjRow' = mjRow
      BY <1>0, <2>1, <2>2, <3>1 DEF MjSubs, Midj!NoRow
    <3>2. ASSUME NEW billed \in BOOLEAN, NEW finished \in BOOLEAN,
                 mjRow' = [status |-> IF finished THEN "SUCCESS" ELSE "NOT_START",
                           full |-> finished, quota |-> Midj!Marker(billed),
                           token |-> FALSE],
                 sub' = [pc |-> IF billed THEN "fund" ELSE "over",
                         quota |-> Midj!Marker(billed), token |-> FALSE]
          PROVE  /\ mjRow'.status # "FAILURE" /\ ~mjRow'.token /\ ~sub'.token
                 /\ mjRow'.quota = sub'.quota
                 /\ sub'.pc = "fund" \/ (sub'.pc = "over" /\ sub'.quota = 0)
      BY <1>0, <3>2 DEF Midj!Marker
    <3> QED
      BY <1>5, <3>1, <3>2 DEF Midj!Insert
  <2> QED
    BY <2>1, <2>2, <2>3 DEF MjSubOK, MjHolds, MjDue
<1>6. CASE Midj!Fund
  <2>1. /\ sub.pc = "fund" /\ mjRow' = mjRow /\ tokens' = tokens
        /\ wallet = 0 /\ tokens = 0 /\ ~sub.token /\ mjRow.quota = sub.quota
    BY <1>0, <1>6 DEF Midj!Fund, MjSubOK
  <2>2. CASE Midj!Failing /\ sub' = [pc |-> "record", quota |-> 0, token |-> FALSE]
                /\ wallet' = wallet
    <3>1. errors' # 0
      BY <1>0, <2>2 DEF Midj!Failing
    <3> QED
      BY <1>2, <2>1, <2>2, <3>1 DEF MjSubOK, MjDue
  <2>3. CASE wallet' = wallet + sub.quota /\ sub' = [sub EXCEPT !.pc = "token"]
    <3>1. sub'.pc = "token" /\ sub'.quota = sub.quota /\ sub'.token = sub.token
      BY <1>0, <2>3 DEF MjSubs
    <3> QED
      BY <1>0, <1>2, <2>1, <2>3, <3>1 DEF MjSubOK
  <2> QED
    BY <1>6, <2>2, <2>3 DEF Midj!Fund
<1>7. CASE Midj!Token
  <2>1. /\ sub.pc = "token" /\ mjRow' = mjRow /\ wallet' = wallet
        /\ tokens = 0 /\ ~sub.token /\ mjRow.quota = sub.quota /\ wallet = sub.quota
    BY <1>0, <1>7 DEF Midj!Token, MjSubOK
  <2>2. /\ sub'.pc = "record" /\ sub'.quota = sub.quota
        /\ tokens' = IF sub'.token THEN sub.quota ELSE 0
    <3>1. CASE sub' = [sub EXCEPT !.pc = "record"] /\ tokens' = tokens
      BY <1>0, <2>1, <3>1 DEF MjSubs
    <3>2. CASE sub' = [sub EXCEPT !.pc = "record", !.token = TRUE]
                  /\ tokens' = tokens + sub.quota
      BY <1>0, <2>1, <3>2 DEF MjSubs
    <3> QED
      BY <1>7, <3>1, <3>2 DEF Midj!Token
  <2> QED
    BY <1>0, <1>2, <2>1, <2>2 DEF MjSubOK, MjDue
<1>8. CASE Midj!Record
  <2>1. /\ sub.pc = "record" /\ sub'.pc = "over" /\ wallet' = wallet /\ tokens' = tokens
        /\ wallet = sub.quota /\ tokens = MjDue(sub)
        /\ errors = 0 => mjRow.quota = sub.quota
    BY <1>0, <1>8 DEF Midj!Record, MjSubOK, MjSubs
  <2>2. tokens >= 0
    BY <1>0, <2>1 DEF MjDue
  <2>3. CASE Midj!Failing /\ mjCut' = TRUE /\ mjRow' = mjRow
    <3>1. errors = 0
      BY <1>0, <2>3 DEF Midj!Failing
    <3> QED
      BY <1>0, <1>2, <2>1, <2>2, <2>3, <3>1 DEF MjSubOK, MjHolds
  <2>4. CASE mjRow' = [mjRow EXCEPT !.quota = sub.quota, !.token = sub.token]
                /\ mjCut' = mjCut
    <3>1. /\ mjRow'.quota = sub.quota /\ mjRow'.token = sub.token
          /\ mjRow'.status = mjRow.status
      BY <1>0, <2>4 DEF MjRows
    <3> QED
      BY <1>0, <1>2, <2>1, <2>2, <3>1 DEF MjSubOK, MjHolds, MjDue
  <2> QED
    BY <1>8, <2>3, <2>4 DEF Midj!Record
<1> QED
  BY <1>5, <1>6, <1>7, <1>8 DEF Midj!Submission

\* A pass that ends without having given anything back.
LEMMA MjOrderlyLeaves ==
    ASSUME MjTyped, MjOrderlyOK, NEW w \in MjWorkers, mjWorker[w].pc = "ask",
           mjWorker' = [mjWorker EXCEPT ![w] = Midj!Idle],
           UNCHANGED <<mjRow, sub, wallet, tokens, mjBulk, mjCut>>,
           errors' \in {errors, errors + 1}
    PROVE  MjOrderlyOK'
<1>1. /\ mjWorker'[w].pc = "idle"
      /\ \A v \in MjWorkers : v # w => mjWorker'[v] = mjWorker[v]
  BY DEF MjTyped, Midj!Idle
<1>2. errors \in Nat /\ (errors' = 0 => errors = 0)
  BY DEF MjTyped
<1>3. MjSubOK'
  BY <1>2 DEF MjOrderlyOK, MjSubOK, MjDue
<1>4. \A v \in MjWorkers : MjPayerOK(v)'
  BY <1>1 DEF MjOrderlyOK, MjPayerOK, MjHolds, MjDue
<1>5. MjOpenOK'
  BY DEF MjOrderlyOK, MjOpenOK, MjHolds, MjDue
<1>6. MjClosedOK'
  BY <1>1 DEF MjOrderlyOK, MjClosedOK, MjDue, Paying
<1> QED
  BY <1>3, <1>4, <1>5, <1>6 DEF MjOrderlyOK

\* A pass: it gives back what the row said when no pass had failed the task.
LEMMA MjOrderlyPass ==
    ASSUME MjTyped, MjRowInv, Midj!Orderly, MjOrderlyOK, NEW w \in MjWorkers,
           Midj!Pass(w)
    PROVE  MjOrderlyOK'
<1>0. /\ mjRow \in MjRows /\ mjRow.quota \in Nat /\ mjRow.token \in BOOLEAN
      /\ wallet \in Int /\ tokens \in Int
      /\ mjCut \in BOOLEAN
      /\ mjWorker \in [MjWorkers -> MjPasses]
      /\ mjWorker[w] \in MjPasses /\ mjWorker[w].copy \in MjRows
      /\ mjWorker[w].copy.quota \in Nat /\ mjWorker[w].copy.token \in BOOLEAN
      /\ MjPassOK(w) /\ MjPayerOK(w)
      /\ wallet >= 0 /\ tokens >= 0
  BY MjParts DEF MjTyped, MjRowInv, MjOrderlyOK
<1>1. CASE Midj!Read(w)
  <2>1. /\ mjWorker'[w] = [pc |-> "ask", copy |-> mjRow]
        /\ mjWorker[w].pc = "idle"
        /\ \A v \in MjWorkers : v # w => mjWorker'[v] = mjWorker[v]
        /\ mjRow' = mjRow /\ sub' = sub /\ wallet' = wallet /\ tokens' = tokens
        /\ mjCut' = mjCut /\ mjBulk' = mjBulk /\ errors' = errors
    BY <1>0, <1>1 DEF Midj!Read
  <2>2. MjSubOK' /\ MjOpenOK'
    BY <2>1 DEF MjOrderlyOK, MjSubOK, MjOpenOK, MjHolds, MjDue
  <2>3. \A v \in MjWorkers : MjPayerOK(v)'
    BY <2>1 DEF MjOrderlyOK, MjPayerOK, MjHolds, MjDue
  <2>4. MjClosedOK'
    BY <2>1 DEF MjOrderlyOK, MjClosedOK, MjDue, Paying
  <2> QED
    BY <2>1, <2>2, <2>3, <2>4 DEF MjOrderlyOK
<1>2. CASE Midj!Unanswered(w)
  BY <1>2, MjOrderlyLeaves DEF Midj!Unanswered
<1>3. CASE Midj!BulkFail(w)
  <2>1. /\ mjWorker[w].pc = "ask" /\ mjWorker'[w].pc = "idle"
        /\ \A v \in MjWorkers : v # w => mjWorker'[v] = mjWorker[v]
        /\ sub' = sub /\ wallet' = wallet /\ tokens' = tokens
        /\ mjCut' = mjCut /\ mjBulk' = TRUE
    BY <1>0, <1>3 DEF Midj!BulkFail, Midj!Idle
  <2>2. /\ mjRow'.status = "FAILURE" /\ mjRow'.quota = mjRow.quota
        /\ mjRow'.token = mjRow.token
    BY <1>0, <1>3 DEF Midj!BulkFail, MjRows
  <2>3. sub.pc = "over"
    BY <1>0, <2>1 DEF MjPassOK, Midj!Orderly
  <2>4. \A v \in MjWorkers : MjPayerOK(v)'
    BY <2>1, <2>2 DEF MjOrderlyOK, MjPayerOK, MjHolds, MjDue
  <2>5. MjClosedOK'
    BY <2>1, <2>2, <2>3 DEF MjOrderlyOK, MjOpenOK, MjClosedOK, MjHolds, MjDue, Paying
  <2>6. MjSubOK' /\ MjOpenOK'
    BY <2>1, <2>2, <2>3 DEF MjSubOK, MjOpenOK
  <2> QED
    BY <1>0, <2>1, <2>4, <2>5, <2>6 DEF MjOrderlyOK
<1>4. CASE Midj!Update(w)
  <2>1. /\ mjWorker[w].pc = "ask" /\ errors' \in {errors, errors + 1}
        /\ UNCHANGED <<sub, wallet, tokens, mjBulk, mjCut>>
        /\ \/ /\ mjRow' = mjRow
              /\ mjWorker' = [mjWorker EXCEPT ![w] = Midj!Idle]
           \/ \E new \in MjRows : MjWrites(w, new)
    BY <1>4, UpdateIs
  <2>2. ASSUME NEW new \in MjRows, MjWrites(w, new) PROVE MjOrderlyOK'
    <3>1. mjRow.status # "FAILURE" /\ sub.pc = "over"
      BY <1>0, <2>1, <2>2 DEF MjPassOK, MjWrites, Midj!Orderly
    <3>2. new.quota = mjRow.quota /\ new.token = mjRow.token /\ mjRow' = new
      BY <1>0, <2>1, <2>2, <3>1 DEF MjWrites, MjPayerOK
    <3>3. wallet = new.quota /\ MjHolds(new)
      BY <3>1, <3>2 DEF MjOrderlyOK, MjOpenOK, MjHolds, MjDue
    <3>4. /\ \A v \in MjWorkers : v # w => mjWorker'[v] = mjWorker[v]
          /\ mjWorker'[w] = IF new.status = "FAILURE" /\ new.quota # 0
                            THEN [pc |-> "pay", copy |-> new] ELSE Midj!Idle
      BY <1>0, <2>2 DEF MjWrites
    <3>5. /\ mjWorker'[w].pc \in {"pay", "idle"}
          /\ mjWorker'[w].pc = "pay" => mjWorker'[w].copy = new
          /\ new.status = "FAILURE" /\ mjWorker'[w].pc # "pay" => new.quota = 0
      BY <3>4 DEF Midj!Idle
    <3>6. \A v \in MjWorkers : v # w => MjPayerOK(v)'
      BY <2>1, <3>1, <3>2, <3>4 DEF MjOrderlyOK, MjPayerOK, MjHolds, MjDue
    <3>7. MjPayerOK(w)'
      BY <2>1, <3>3, <3>5 DEF MjPayerOK, MjHolds, MjDue
    <3>8. MjSubOK' /\ MjOpenOK'
      BY <2>1, <3>1, <3>2, <3>3 DEF MjSubOK, MjOpenOK, MjHolds, MjDue
    <3>9. MjClosedOK'
      BY <2>1, <3>2, <3>3, <3>5 DEF MjClosedOK, MjHolds, MjDue, Paying
    <3> QED
      BY <1>0, <2>1, <3>6, <3>7, <3>8, <3>9 DEF MjOrderlyOK
  <2> QED
    BY <2>1, <2>2, MjOrderlyLeaves
<1>5. ASSUME Paying(w)
      PROVE  /\ sub.pc = "over" /\ mjRow.status = "FAILURE" /\ w \notin MjLoops
             /\ \A v \in MjWorkers : v # w => ~Paying(v)
  BY <1>0, <1>5, MidjourneyAssumption DEF MjPassOK, MjRowInv, Midj!Orderly, Paying
<1>6. ASSUME Paying(w), sub' = sub, mjRow'.status = mjRow.status,
             \A v \in MjWorkers : v # w => mjWorker'[v] = mjWorker[v]
      PROVE  /\ MjSubOK' /\ MjOpenOK'
             /\ \A v \in MjWorkers : v # w => MjPayerOK(v)' /\ ~Paying(v)'
  BY <1>5, <1>6 DEF MjSubOK, MjOpenOK, MjPayerOK, Paying
<1>7. CASE Midj!Pay(w)
  <2>1. /\ mjWorker[w].pc = "pay" /\ sub' = sub /\ mjRow' = mjRow /\ tokens' = tokens
        /\ \A v \in MjWorkers : v # w => mjWorker'[v] = mjWorker[v]
    BY <1>0, <1>7 DEF Midj!Pay
  <2>2. /\ Paying(w) /\ wallet = mjWorker[w].copy.quota /\ MjHolds(mjWorker[w].copy)
    BY <1>0, <2>1 DEF Paying, MjPayerOK
  <2>3. CASE mjCut' = TRUE /\ mjWorker' = [mjWorker EXCEPT ![w] = Midj!Idle]
                /\ wallet' = wallet
    <3>1. mjWorker'[w].pc = "idle"
      BY <1>0, <2>3 DEF Midj!Idle
    <3>2. MjPayerOK(w)' /\ MjClosedOK'
      BY <2>3, <3>1 DEF MjPayerOK, MjClosedOK
    <3> QED
      BY <1>0, <1>6, <2>1, <2>2, <2>3, <3>2 DEF MjOrderlyOK
  <2>4. CASE /\ wallet' = wallet - mjWorker[w].copy.quota
             /\ mjWorker' = [mjWorker EXCEPT ![w] =
                                IF w \in MjLoops THEN Midj!Idle
                                ELSE [mjWorker[w] EXCEPT !.pc = "payToken"]]
             /\ mjCut' = mjCut
    <3>1. mjWorker'[w].pc = "payToken" /\ mjWorker'[w].copy = mjWorker[w].copy
      BY <1>0, <1>5, <2>2, <2>4 DEF MjPasses
    <3>2. wallet' = 0
      BY <1>0, <2>2, <2>4
    <3>3. MjPayerOK(w)' /\ MjClosedOK'
      BY <2>1, <2>2, <2>4, <3>1, <3>2 DEF MjPayerOK, MjClosedOK, MjHolds, MjDue, Paying
    <3> QED
      BY <1>0, <1>6, <2>1, <2>2, <3>2, <3>3 DEF MjOrderlyOK
  <2> QED
    BY <1>7, <2>3, <2>4 DEF Midj!Pay
<1>8. CASE Midj!PayToken(w)
  <2>1. /\ mjWorker[w].pc = "payToken" /\ sub' = sub /\ mjRow' = mjRow
        /\ wallet' = wallet /\ mjWorker'[w].pc = "clear"
        /\ \A v \in MjWorkers : v # w => mjWorker'[v] = mjWorker[v]
    BY <1>0, <1>8 DEF Midj!PayToken, MjPasses
  <2>2. Paying(w) /\ wallet = 0 /\ MjHolds(mjWorker[w].copy)
    BY <1>0, <2>1 DEF Paying, MjPayerOK
  <2>3. tokens' >= 0 /\ (~mjCut' => tokens' = 0)
    <3>1. CASE mjCut' = TRUE /\ tokens' = tokens
      BY <1>0, <3>1
    <3>2. CASE tokens' = tokens - Midj!TokenDue(mjWorker[w].copy) /\ mjCut' = mjCut
      BY <1>0, <2>2, <3>2 DEF MjHolds, MjDue, Midj!TokenDue
    <3> QED
      BY <1>8, <3>1, <3>2 DEF Midj!PayToken
  <2>4. MjPayerOK(w)' /\ MjClosedOK'
    BY <2>1, <2>2, <2>3 DEF MjPayerOK, MjClosedOK, Paying
  <2> QED
    BY <1>0, <1>6, <2>1, <2>2, <2>3, <2>4 DEF MjOrderlyOK
<1>9. CASE Midj!Clear(w)
  <2>1. /\ mjWorker[w].pc = "clear" /\ sub' = sub /\ tokens' = tokens
        /\ wallet' = wallet /\ mjWorker'[w].pc = "idle"
        /\ \A v \in MjWorkers : v # w => mjWorker'[v] = mjWorker[v]
    BY <1>0, <1>9 DEF Midj!Clear, Midj!Idle
  <2>2. Paying(w) /\ wallet = 0 /\ (~mjCut => tokens = 0)
    BY <1>0, <2>1 DEF Paying, MjPayerOK
  <2>3. mjRow'.status = mjRow.status /\ (~mjCut' => ~mjCut /\ mjRow'.quota = 0)
    BY <1>0, <1>9 DEF Midj!Clear, MjRows
  <2>4. MjPayerOK(w)' /\ MjClosedOK'
    BY <2>1, <2>2, <2>3 DEF MjPayerOK, MjClosedOK, MjDue
  <2> QED
    BY <1>0, <1>6, <2>1, <2>2, <2>3, <2>4 DEF MjOrderlyOK
<1> QED
  BY <1>1, <1>2, <1>3, <1>4, <1>7, <1>8, <1>9 DEF Midj!Pass

LEMMA MjOrderlyStep ==
    ASSUME MjTyped, MjRowInv, MjOrderlyInv, Midj!Next
    PROVE  MjOrderlyInv'
<1>1. SUFFICES ASSUME Midj!Orderly' PROVE MjOrderlyOK'
  BY DEF MjOrderlyInv
<1>2. Midj!Orderly /\ MjOrderlyOK
  BY <1>1, MjHistory, MjSetupStays DEF MjOrderlyInv
<1>3. CASE Midj!HourPasses
  <2>1. UNCHANGED <<mjRow, sub, mjWorker, wallet, tokens, mjBulk, mjCut, errors>>
    BY <1>3 DEF Midj!HourPasses
  <2> QED
    BY <1>2, <2>1 DEF MjOrderlyOK, MjSubOK, MjPayerOK, MjOpenOK, MjClosedOK, MjHolds,
       MjDue, Paying
<1>4. CASE Midj!Crash
  <2>1. PICK w \in MjWorkers :
           /\ mjWorker[w].pc # "idle"
           /\ mjWorker' = [mjWorker EXCEPT ![w] = Midj!Idle]
           /\ mjCut' = (mjCut \/ mjWorker[w].pc # "ask")
           /\ UNCHANGED <<sub, mjRow, wallet, tokens, mjBulk, errors>>
    BY <1>2, <1>4 DEF Midj!Crash, Midj!Workers, MjWorkers, Midj!Orderly
  <2>2. CASE mjWorker[w].pc = "ask"
    <3>1. mjCut' = mjCut
      BY <2>1, <2>2 DEF MjTyped
    <3> QED
      BY <1>2, <2>1, <2>2, <3>1, MjOrderlyLeaves
  <2>3. CASE mjWorker[w].pc # "ask"
    <3>1. /\ mjCut' /\ mjWorker'[w].pc = "idle" /\ Paying(w)
          /\ \A v \in MjWorkers : v # w => mjWorker'[v] = mjWorker[v]
      BY <2>1, <2>3, MjParts DEF MjTyped, Midj!Idle, Paying, MjPasses
    <3>2. /\ sub.pc = "over" /\ mjRow.status = "FAILURE"
          /\ \A v \in MjWorkers : v # w => ~Paying(v)
      BY <1>2, <2>1, <3>1 DEF MjRowInv, MjPassOK, Midj!Orderly
    <3>3. MjSubOK' /\ MjOpenOK' /\ MjClosedOK'
      BY <2>1, <3>1, <3>2 DEF MjSubOK, MjOpenOK, MjClosedOK
    <3>4. \A v \in MjWorkers : MjPayerOK(v)'
      BY <2>1, <3>1, <3>2 DEF MjPayerOK, Paying
    <3> QED
      BY <1>2, <2>1, <3>3, <3>4 DEF MjOrderlyOK
  <2> QED
    BY <2>2, <2>3
<1>5. CASE Midj!Submission
  BY <1>2, <1>5, MjOrderlySubmission
<1>6. ASSUME NEW w \in MjWorkers, Midj!Pass(w) PROVE MjOrderlyOK'
  BY <1>2, <1>6, MjOrderlyPass
<1> QED
  BY <1>3, <1>4, <1>5, <1>6 DEF Midj!Next, Midj!Workers, MjWorkers

-----------------------------------------------------------------------------
MjInv == MjTyped /\ MjRowInv /\ MjWalletInv /\ MjOrderlyInv

LEMMA MjInit == Midj!Init => MjInv
<1> SUFFICES ASSUME Midj!Init PROVE MjInv
  OBVIOUS
<1>1. /\ setup \in MjSetups /\ mjRow = Midj!NoRow
      /\ sub = [pc |-> "insert", quota |-> 0, token |-> FALSE]
      /\ mjWorker = [w \in MjWorkers |-> Midj!Idle]
      /\ wallet = 0 /\ tokens = 0 /\ errors = 0
      /\ mjBulk = FALSE /\ mjCut = FALSE
  BY DEF Midj!Init, Midj!Workers, MjWorkers
<1>2. sub \in MjSubs
  BY <1>1 DEF MjSubs
<1>3. MjTyped
  <2>1. mjRow \in MjRows /\ mjWorker \in [MjWorkers -> MjPasses]
    BY <1>1, MjIdle
  <2>2. wallet \in Int /\ tokens \in Int /\ errors \in Nat
    BY <1>1
  <2>3. mjCut \in BOOLEAN /\ mjBulk \in BOOLEAN
    BY <1>1, Zenon
  <2> QED
    BY <1>1, <1>2, <2>1, <2>2, <2>3, Zenon DEF MjTyped
<1>4. /\ \A w \in MjWorkers : mjWorker[w].pc = "idle"
      /\ mjRow.status # "FAILURE" /\ mjRow.full /\ ~mjRow.token
  BY <1>1 DEF Midj!Idle, Midj!NoRow
<1>5. MjRowInv
  BY <1>1, <1>4 DEF MjRowInv, MjPassOK, Paying
<1>6. MjWalletInv
  BY <1>1, <1>4 DEF MjWalletInv, MjWalletOK, MjTaken, MjRefunded
<1>7. MjOrderlyInv
  BY <1>1, <1>4 DEF MjOrderlyInv, MjOrderlyOK, MjSubOK, MjPayerOK, MjOpenOK, MjClosedOK
<1> QED
  BY <1>3, <1>5, <1>6, <1>7 DEF MjInv

LEMMA MjNext == MjInv /\ [MCNext]_<<part, vars, mjVars, sysVars>> => MjInv'
<1> SUFFICES ASSUME MjInv, [MCNext]_<<part, vars, mjVars, sysVars>> PROVE MjInv'
  OBVIOUS
<1>1. CASE Midj!Next
  BY <1>1, MjTypedStep, MjRowStep, MjWalletStep, MjOrderlyStep DEF MjInv
<1>2. CASE UNCHANGED mjVars
  <2>1. /\ setup' = setup
        /\ UNCHANGED <<mjRow, sub, mjWorker, wallet, tokens, mjBulk, mjCut, errors>>
    BY <1>2 DEF mjVars
  <2>2. MjTyped'
    BY <2>1 DEF MjInv, MjTyped
  <2>3. MjRowInv'
    BY <2>1, MjSetupStays DEF MjInv, MjRowInv, MjPassOK, Paying
  <2>4. MjWalletInv'
    BY <2>1, MjSetupStays DEF MjInv, MjWalletInv, MjWalletOK, MjTaken, MjRefunded
  <2>5. MjOrderlyInv'
    BY <2>1, MjSetupStays DEF MjInv, MjOrderlyInv, MjOrderlyOK, MjSubOK, MjPayerOK,
       MjOpenOK, MjClosedOK, MjHolds, MjDue, Paying
  <2> QED
    BY <2>2, <2>3, <2>4, <2>5 DEF MjInv
<1> QED
  BY <1>1, <1>2 DEF MCNext

\* A Midjourney task that failed gives its price back to the wallet exactly once
\* with every pass at work; with the handler of runMidjourneyTaskUpdateOnce alone
\* the row says what the wallet and the token gave, nobody gets back more than was
\* taken, and a failed task has cost nothing: RefundMidjourneyQuota, the writes of
\* UpdateWithStatus and SettleMidjourneyTaskBilling, for any passes, prices,
\* answers and circumstances.
THEOREM MidjourneyRefunds == MCSpec => []RefundIsExact
<1>1. MCInit => MjInv
  BY MjInit DEF MCInit
<1>2. MjInv => RefundIsExact
  <2> SUFFICES ASSUME MjInv PROVE RefundIsExact
    OBVIOUS
  <2>0. /\ mjWorker \in [MjWorkers -> MjPasses]
        /\ \A w \in MjWorkers : mjWorker[w] \in MjPasses
        /\ sub.quota \in Nat /\ mjCut \in BOOLEAN /\ mjBulk \in BOOLEAN
        /\ mjRow.quota \in Nat /\ mjRow.status = "FAILURE" => mjRow.full
    BY MjParts DEF MjInv, MjTyped, MjRowInv
  <2>1. ASSUME Midj!Quiet
        PROVE  /\ sub.pc = "over"
               /\ \A w \in MjWorkers : mjWorker[w].pc # "pay" /\ ~Paying(w)
    BY <2>1 DEF Midj!Quiet, Midj!Workers, MjWorkers, Paying
  <2>2. Midj!Over <=> mjRow.status = "FAILURE"
    BY DEF Midj!Over, MjInv, MjRowInv
  <2>3. Midj!Timely /\ Midj!Quiet /\ ~mjCut /\ ~mjBulk =>
           wallet = IF Midj!Over THEN 0 ELSE sub.quota
    <3> SUFFICES ASSUME Midj!Timely, Midj!Quiet, ~mjCut, ~mjBulk
                 PROVE  wallet = IF Midj!Over THEN 0 ELSE sub.quota
      OBVIOUS
    <3>1. wallet = MjTaken - (IF MjRefunded THEN sub.quota ELSE 0)
      BY DEF MjInv, MjWalletInv, MjWalletOK
    <3>2. MjTaken = sub.quota /\ (MjRefunded <=> mjRow.status = "FAILURE")
      BY <2>1 DEF MjTaken, MjRefunded
    <3> QED
      BY <2>0, <2>2, <3>1, <3>2
  <2>4. Midj!Orderly =>
           /\ wallet >= 0 /\ tokens >= 0
           /\ Midj!Quiet /\ ~mjCut =>
                /\ wallet = mjRow.quota
                /\ tokens = IF mjRow.token THEN mjRow.quota ELSE 0
                /\ Midj!Over /\ ~mjBulk => wallet = 0 /\ tokens = 0
    BY <2>1, <2>2 DEF MjInv, MjOrderlyInv, MjOrderlyOK, MjClosedOK, MjDue
  <2> QED
    BY <2>3, <2>4 DEF RefundIsExact, Midj!RefundIsExact
<1>3. MjInv /\ [MCNext]_<<part, vars, mjVars, sysVars>> => MjInv'
  BY MjNext
<1> QED
  BY <1>1, <1>2, <1>3, PTL DEF MCSpec

-----------------------------------------------------------------------------
(* The runner of the system tasks, one of which is the pass that polls:    *)
(* SystemTask, for any number of nodes and tasks, with and without pauses. *)

(* The inductive invariant.                                                *)

Claiming == {"acquire"} \cup Sys!ClaimLabels

\* A node that claims is at a row, and a fresh lock names one.
RefsOK ==
    /\ \A r \in Runners : stmt[r] \in Claiming => place[r] \in Sys!Rows
    /\ lock.fresh => lock.task \in Sys!Rows

\* A row has an owner once it has been claimed.
OwnerOK == \A t \in Sys!Rows : status[t] \in {"absent", "pending"} => owner[t] = NoRunner

\* A node that may still take the lock for a row does not own the row: a row is
\* claimed once, and its owner is past the claim.
ClaimOnce ==
    \A r \in Runners :
        stmt[r] \in {"acquire", "takeover", "markOld", "cas"} => owner[place[r]] # r

\* A task that lost its lease never holds it again.
LostOK ==
    \A t \in lost :
        /\ status[t] \in {"running", "failed"}
        /\ ~(lock.task = t /\ lock.by = owner[t] /\ lock.fresh)

LeaseInv == Sys!TypeOK /\ RefsOK /\ OwnerOK /\ ClaimOnce /\ LostOK

-----------------------------------------------------------------------------
(* Types.                                                                  *)

LEMMA TasksAreNumbers == Sys!NoRow \notin Sys!Rows
  BY RunnerAssumption DEF Sys!SystemTaskAssumption, Sys!Rows, Sys!NoRow

LEMMA LockTypes ==
    /\ Sys!NoLock \in Sys!LockType
    /\ \A t \in Sys!Rows, r \in Runners : Sys!LockOf(t, r) \in Sys!LockType
  BY DEF Sys!NoLock, Sys!LockType, Sys!LockOf

LEMMA InitLeaseInv == Sys!Init => LeaseInv
<1> SUFFICES ASSUME Sys!Init PROVE LeaseInv
  OBVIOUS
<1>1. Sys!TypeOK
  BY LockTypes, RunnerAssumption
     DEF Sys!SystemTaskAssumption, Sys!Init, Sys!TypeOK, Sys!Statuses,
         Sys!Labels
<1> QED
  BY <1>1
     DEF Sys!Init, LeaseInv, RefsOK, OwnerOK, ClaimOnce, LostOK, Claiming,
         Sys!ClaimLabels, Sys!NoLock

\* The control of a node after the end of its pass.
LEMMA ReturnType ==
    ASSUME Sys!TypeOK, NEW r \in Runners, Sys!Return(r)
    PROVE  /\ stmt' \in [Runners -> Sys!Labels]
           /\ place' \in [Runners -> Sys!Rows \cup {Sys!NoRow}]
           /\ seen' \in [Runners -> Sys!LockType]
           /\ older' \subseteq Runners
  BY LockTypes DEF Sys!TypeOK, Sys!Return, Sys!Labels

LEMMA GoType ==
    ASSUME Sys!TypeOK, NEW r \in Runners, NEW l \in Sys!Labels, Sys!Go(r, l)
    PROVE  /\ stmt' \in [Runners -> Sys!Labels]
           /\ place' \in [Runners -> Sys!Rows \cup {Sys!NoRow}]
           /\ seen' \in [Runners -> Sys!LockType]
           /\ older' \subseteq Runners
  BY DEF Sys!TypeOK, Sys!Go

LEMMA GoWithLockType ==
    ASSUME Sys!TypeOK, NEW r \in Runners, place[r] \in Sys!Rows,
           NEW l \in Sys!Labels, Sys!GoWithLock(r, l)
    PROVE  /\ lock' \in Sys!LockType
           /\ stmt' \in [Runners -> Sys!Labels]
           /\ place' \in [Runners -> Sys!Rows \cup {Sys!NoRow}]
           /\ seen' \in [Runners -> Sys!LockType]
           /\ older' \subseteq Runners
  BY LockTypes DEF Sys!TypeOK, Sys!GoWithLock, Sys!OthersBusy

LEMMA FailureType ==
    ASSUME Sys!TypeOK, Sys!Fault
    PROVE  failures' \in 0 .. Failures
  BY RunnerAssumption DEF Sys!SystemTaskAssumption, Sys!TypeOK, Sys!Fault

LEMMA MarkType ==
    ASSUME Sys!TypeOK, NEW t, Sys!MarkLeaseExpired(t)
    PROVE  status' \in [Sys!Rows -> Sys!Statuses]
  BY DEF Sys!TypeOK, Sys!MarkLeaseExpired, Sys!Statuses

LEMMA LoopType ==
    ASSUME LeaseInv, NEW r \in Runners, Sys!Loop(r)
    PROVE  Sys!TypeOK'
<1>1. Sys!TypeOK /\ RefsOK
  BY DEF LeaseInv
<1> USE <1>1, ReturnType, GoType, GoWithLockType, FailureType, MarkType,
        LockTypes
<1>2. CASE Sys!ClaimScan(r)
  BY <1>2 DEF Sys!TypeOK, Sys!ClaimScan, Sys!Labels
<1>3. CASE Sys!Acquire(r)
  <2>1. place[r] \in Sys!Rows
    BY <1>3 DEF Sys!Acquire, RefsOK, Claiming
  <2> QED
    BY <1>3, <2>1 DEF Sys!TypeOK, Sys!Acquire, Sys!Labels, Sys!ClaimLabels
<1>4. CASE Sys!Takeover(r)
  <2>1. place[r] \in Sys!Rows
    BY <1>4 DEF Sys!Takeover, RefsOK, Claiming, Sys!ClaimLabels
  <2>2. (IF seen[r].task # place[r] THEN "markOld" ELSE "cas") \in Sys!Labels
    BY DEF Sys!Labels, Sys!ClaimLabels
  <2> QED
    BY <1>4, <2>1, <2>2 DEF Sys!TypeOK, Sys!Takeover
<1>5. CASE Sys!MarkOld(r)
  <2>1. "cas" \in Sys!Labels /\ "giveUp" \in Sys!Labels
    BY DEF Sys!Labels, Sys!ClaimLabels
  <2> QED
    BY <1>5, <2>1 DEF Sys!TypeOK, Sys!MarkOld
<1>6. CASE Sys!ClaimCAS(r)
  <2>1. place[r] \in Sys!Rows
    BY <1>6 DEF Sys!ClaimCAS, RefsOK, Claiming, Sys!ClaimLabels
  <2>2. "giveUp" \in Sys!Labels
    BY DEF Sys!Labels, Sys!ClaimLabels
  <2> QED
    BY <1>6, <2>1, <2>2
       DEF Sys!TypeOK, Sys!ClaimCAS, Sys!Statuses, Sys!Labels, Sys!ClaimLabels,
           Sys!OthersBusy
<1>7. CASE Sys!GiveUp(r)
  BY <1>7 DEF Sys!TypeOK, Sys!GiveUp, Sys!Released
<1>8. CASE Sys!Dispatch(r)
  BY <1>8 DEF Sys!TypeOK, Sys!Dispatch
<1>9. CASE Sys!ExpireScan(r)
  BY <1>9 DEF Sys!TypeOK, Sys!ExpireScan, Sys!Labels
<1>10. CASE Sys!ExpireMark(r)
  <2>1. "expDelete" \in Sys!Labels
    BY DEF Sys!Labels
  <2> QED
    BY <1>10, <2>1 DEF Sys!TypeOK, Sys!ExpireMark
<1>11. CASE Sys!ExpireDelete(r)
  BY <1>11 DEF Sys!TypeOK, Sys!ExpireDelete
<1> QED
  BY <1>2, <1>3, <1>4, <1>5, <1>6, <1>7, <1>8, <1>9, <1>10, <1>11 DEF Sys!Loop

LEMMA SystemTypeStep ==
    ASSUME LeaseInv, [Sys!Next]_(Sys!vars)
    PROVE  Sys!TypeOK'
<1>1. Sys!TypeOK /\ RefsOK
  BY DEF LeaseInv
<1> USE <1>1, FailureType, LockTypes
<1>2. ASSUME NEW t \in Sys!Rows, Sys!Create(t) PROVE Sys!TypeOK'
  BY <1>2 DEF Sys!TypeOK, Sys!Create, Sys!Statuses
<1>3. ASSUME NEW t \in Sys!Rows, Sys!Handler(t) PROVE Sys!TypeOK'
  <2>1. CASE Sys!StopOnLostLease(t)
    BY <2>1 DEF Sys!TypeOK, Sys!StopOnLostLease
  <2>2. ASSUME NEW result \in Sys!Terminal, Sys!Finish(t, result) PROVE Sys!TypeOK'
    BY <2>2 DEF Sys!TypeOK, Sys!Finish, Sys!Terminal, Sys!Statuses
  <2>3. CASE Sys!FinishRelease(t)
    BY <2>3 DEF Sys!TypeOK, Sys!FinishRelease, Sys!Released
  <2> QED
    BY <1>3, <2>1, <2>2, <2>3 DEF Sys!Handler
<1>4. ASSUME NEW r \in Runners, Sys!Crash(r) PROVE Sys!TypeOK'
  BY <1>4 DEF Sys!TypeOK, Sys!Crash
<1>5. CASE Sys!LeaseTimesOut
  <2>1. [lock EXCEPT !.fresh = FALSE] \in Sys!LockType
    BY DEF Sys!TypeOK, Sys!LockType
  <2> QED
    BY <1>5, <2>1 DEF Sys!TypeOK, Sys!LeaseTimesOut, RefsOK
<1>6. CASE UNCHANGED Sys!vars
  BY <1>6 DEF Sys!TypeOK, Sys!vars
<1> QED
  BY <1>2, <1>3, <1>4, <1>5, <1>6, LoopType DEF Sys!Next

-----------------------------------------------------------------------------
(* The invariant is preserved.                                             *)

\* The fields of the lock that matter to the fence after a step.
LockAfter ==
    \/ lock' = lock
    \/ lock' = Sys!NoLock
    \/ lock' = [lock EXCEPT !.fresh = FALSE]

\* A step that starts no claim, gives no row an owner and renews no lease.
Unfencing ==
    /\ LockAfter
    /\ owner' = owner
    /\ \A r \in Runners :
          stmt'[r] \in Claiming =>
             /\ stmt[r] \in Claiming /\ place'[r] = place[r]
             /\ stmt'[r] \in {"acquire", "takeover", "markOld", "cas"} =>
                   stmt[r] \in {"acquire", "takeover", "markOld", "cas"}
    /\ \A t \in Sys!Rows : status'[t] \in {"absent", "pending"} =>
                            status[t] \in {"absent", "pending"}

LEMMA UnfencingStep ==
    ASSUME LeaseInv, Sys!TypeOK', Unfencing,
           \A t \in lost' :
              \/ t \in lost /\ status'[t] \in {"running", "failed"}
              \/ status'[t] = "running" /\ ~lock'.fresh
    PROVE  LeaseInv'
<1>1. Sys!TypeOK /\ RefsOK /\ OwnerOK /\ ClaimOnce /\ LostOK
  BY DEF LeaseInv
<1>2. ~Sys!NoLock.fresh
  BY DEF Sys!NoLock
<1>3. lock'.fresh => lock' = lock
  BY <1>1, <1>2 DEF Unfencing, LockAfter, Sys!TypeOK, Sys!LockType
<1>4. RefsOK'
  BY <1>1, <1>3 DEF RefsOK, Unfencing
<1>5. OwnerOK'
  BY <1>1 DEF OwnerOK, Unfencing
<1>6. ClaimOnce'
  BY <1>1 DEF ClaimOnce, Unfencing, Claiming, Sys!ClaimLabels
<1>7. LostOK'
  BY <1>1, <1>3 DEF LostOK, Unfencing
<1> QED
  BY <1>4, <1>5, <1>6, <1>7 DEF LeaseInv

\* A step of node r that leaves everybody else's control alone.
LEMMA OthersGoOn ==
    ASSUME Sys!TypeOK, NEW r \in Runners, NEW l \in Sys!Labels,
           stmt' = [stmt EXCEPT ![r] = l],
           place' = place \/ place' = [place EXCEPT ![r] = Sys!NoRow],
           l \in Claiming => stmt[r] \in Claiming /\ place' = place,
           l \in {"acquire", "takeover", "markOld", "cas"} =>
              stmt[r] \in {"acquire", "takeover", "markOld", "cas"}
    PROVE  \A q \in Runners :
             stmt'[q] \in Claiming =>
                /\ stmt[q] \in Claiming /\ place'[q] = place[q]
                /\ stmt'[q] \in {"acquire", "takeover", "markOld", "cas"} =>
                      stmt[q] \in {"acquire", "takeover", "markOld", "cas"}
  BY DEF Sys!TypeOK

LEMMA MarkKeeps ==
    ASSUME LeaseInv, NEW u, Sys!MarkLeaseExpired(u)
    PROVE  /\ \A t \in Sys!Rows : status'[t] \in {"absent", "pending"} =>
                                 status[t] \in {"absent", "pending"}
           /\ \A t \in lost : status'[t] \in {"running", "failed"}
<1>1. Sys!TypeOK /\ LostOK
  BY DEF LeaseInv
<1> QED
  BY <1>1 DEF Sys!MarkLeaseExpired, Sys!TypeOK, LostOK

\* A node takes the lock for the row it is claiming, which it does not own.
LEMMA LockStep ==
    ASSUME LeaseInv, Sys!TypeOK', NEW r \in Runners, stmt[r] \in {"acquire", "takeover"},
           NEW l \in {"markOld", "cas"}, Sys!GoWithLock(r, l),
           UNCHANGED <<status, owner, lost>>
    PROVE  LeaseInv'
<1>1. Sys!TypeOK /\ RefsOK /\ OwnerOK /\ ClaimOnce /\ LostOK
  BY DEF LeaseInv
<1>2. place[r] \in Sys!Rows /\ owner[place[r]] # r
  BY <1>1 DEF RefsOK, ClaimOnce, Claiming, Sys!ClaimLabels
<1>3. lock'.task = place[r] /\ lock'.by = r
  BY DEF Sys!GoWithLock, Sys!LockOf
<1>4. stmt' = [stmt EXCEPT ![r] = l] /\ place' = place
  BY DEF Sys!GoWithLock
<1>5. RefsOK'
  BY <1>1, <1>2, <1>3, <1>4 DEF RefsOK, Sys!TypeOK, Claiming, Sys!ClaimLabels
<1>6. OwnerOK'
  BY <1>1 DEF OwnerOK
<1>7. ClaimOnce'
  BY <1>1, <1>2, <1>4 DEF ClaimOnce, Sys!TypeOK
<1>8. LostOK'
  BY <1>1, <1>2, <1>3 DEF LostOK
<1> QED
  BY <1>5, <1>6, <1>7, <1>8 DEF LeaseInv

LEMMA ClaimScanStep ==
    ASSUME LeaseInv, Sys!TypeOK', NEW r \in Runners, Sys!ClaimScan(r)
    PROVE  LeaseInv'
<1>1. Sys!TypeOK /\ RefsOK /\ OwnerOK /\ ClaimOnce /\ LostOK
  BY DEF LeaseInv
<1>2. PICK t \in Sys!Rows : status[t] = "pending" /\ place' = [place EXCEPT ![r] = t]
  BY DEF Sys!ClaimScan
<1>3. /\ stmt' = [stmt EXCEPT ![r] = "acquire"]
      /\ UNCHANGED <<status, owner, lock, lost>>
  BY DEF Sys!ClaimScan
<1>4. owner[t] # r
  BY <1>1, <1>2, RunnerAssumption DEF Sys!SystemTaskAssumption, OwnerOK
<1>5. RefsOK'
  BY <1>1, <1>2, <1>3 DEF RefsOK, Sys!TypeOK
<1>6. OwnerOK' /\ LostOK'
  BY <1>1, <1>3 DEF OwnerOK, LostOK
<1>7. ClaimOnce'
  BY <1>1, <1>2, <1>3, <1>4 DEF ClaimOnce, Sys!TypeOK
<1> QED
  BY <1>5, <1>6, <1>7 DEF LeaseInv

\* The row gets its owner, which is past the claim from now on.
LEMMA ClaimStep ==
    ASSUME LeaseInv, Sys!TypeOK', NEW r \in Runners, stmt[r] = "cas",
           status[place[r]] = "pending",
           status' = [status EXCEPT ![place[r]] = "running"],
           owner' = [owner EXCEPT ![place[r]] = r],
           lost' = IF lock = Sys!LockOf(place[r], r) THEN lost ELSE lost \cup {place[r]},
           stmt' = [stmt EXCEPT ![r] = "reload"], UNCHANGED <<place, lock>>
    PROVE  LeaseInv'
<1>1. Sys!TypeOK /\ RefsOK /\ OwnerOK /\ ClaimOnce /\ LostOK
  BY DEF LeaseInv
<1>2. PICK t \in Sys!Rows : t = place[r]
  BY <1>1 DEF RefsOK, Claiming, Sys!ClaimLabels
<1>3. RefsOK'
  BY <1>1 DEF RefsOK, Sys!TypeOK, Claiming, Sys!ClaimLabels
<1>4. OwnerOK'
  BY <1>1, <1>2 DEF OwnerOK, Sys!TypeOK
<1>5. ClaimOnce'
  <2> SUFFICES ASSUME NEW q \in Runners,
                      stmt'[q] \in {"acquire", "takeover", "markOld", "cas"}
               PROVE  owner'[place'[q]] # q
    BY DEF ClaimOnce
  <2>1. q # r /\ stmt'[q] = stmt[q] /\ place[q] \in Sys!Rows /\ owner[place[q]] # q
    BY <1>1 DEF Sys!TypeOK, ClaimOnce, RefsOK, Claiming, Sys!ClaimLabels
  <2> QED
    BY <1>1, <1>2, <2>1 DEF Sys!TypeOK
<1>6. LostOK'
  <2> SUFFICES ASSUME NEW u \in lost'
               PROVE  /\ status'[u] \in {"running", "failed"}
                      /\ ~(lock.task = u /\ lock.by = owner'[u] /\ lock.fresh)
    BY DEF LostOK
  <2>1. CASE u \in lost
    <3>1. u # t /\ u \in Sys!Rows
      BY <1>1, <1>2, <2>1 DEF LostOK, Sys!TypeOK
    <3> QED
      BY <1>1, <1>2, <2>1, <3>1 DEF LostOK, Sys!TypeOK
  <2>2. CASE u \notin lost
    <3>1. u = t /\ lock # Sys!LockOf(t, r)
      BY <1>2, <2>2
    <3>2. lock.task = t /\ lock.by = r /\ lock.fresh => lock = Sys!LockOf(t, r)
      BY <1>1 DEF Sys!TypeOK, Sys!LockType, Sys!LockOf
    <3> QED
      BY <1>1, <1>2, <3>1, <3>2 DEF Sys!TypeOK
  <2> QED
    BY <2>1, <2>2
<1> QED
  BY <1>3, <1>4, <1>5, <1>6 DEF LeaseInv

LEMMA LoopStep ==
    ASSUME LeaseInv, Sys!TypeOK', NEW r \in Runners, Sys!Loop(r)
    PROVE  LeaseInv'
<1>1. Sys!TypeOK /\ RefsOK /\ LostOK
  BY DEF LeaseInv
<1>2. \A t \in lost : t \in Sys!Rows /\ status[t] \in {"running", "failed"}
  BY <1>1 DEF Sys!TypeOK, LostOK
<1> DEFINE Early == {"acquire", "takeover", "markOld", "cas"}
<1>3. ASSUME NEW l \in Sys!Labels, Sys!Go(r, l), l \in Claiming => stmt[r] \in Claiming,
             l \in Early => stmt[r] \in Early,
             LockAfter, owner' = owner, lost' = lost,
             status' = status \/ \E u : Sys!MarkLeaseExpired(u)
      PROVE  LeaseInv'
  <2>1. /\ \A t \in Sys!Rows : status'[t] \in {"absent", "pending"} =>
                              status[t] \in {"absent", "pending"}
        /\ \A t \in lost : status'[t] \in {"running", "failed"}
    BY <1>2, <1>3, MarkKeeps
  <2>2. Unfencing
    BY <1>1, <1>3, <2>1, OthersGoOn DEF Unfencing, Sys!Go
  <2> QED
    BY <1>3, <2>1, <2>2, UnfencingStep
<1>4. ASSUME Sys!Return(r), LockAfter, UNCHANGED <<status, owner, lost>> PROVE LeaseInv'
  <2>1. "idle" \in Sys!Labels /\ "idle" \notin Claiming /\ "idle" \notin Early
    BY DEF Sys!Labels, Claiming, Sys!ClaimLabels
  <2>2. Unfencing
    BY <1>1, <1>4, <2>1, OthersGoOn DEF Unfencing, Sys!Return
  <2> QED
    BY <1>2, <1>4, <2>2, UnfencingStep
<1>5. CASE Sys!ClaimScan(r)
  BY <1>5, ClaimScanStep
<1>6. CASE Sys!Acquire(r)
  <2>1. CASE Sys!GoWithLock(r, "cas")
    BY <1>6, <2>1, LockStep DEF Sys!Acquire
  <2>2. CASE /\ stmt' = [stmt EXCEPT ![r] = "takeover"]
             /\ UNCHANGED <<lock, place>>
    <3>1. "takeover" \in Sys!Labels /\ stmt[r] \in Claiming /\ stmt[r] \in Early
      BY <1>6 DEF Sys!Labels, Sys!ClaimLabels, Claiming, Sys!Acquire
    <3>2. Unfencing
      BY <1>1, <1>6, <2>2, <3>1, OthersGoOn
         DEF Unfencing, LockAfter, Sys!Acquire
    <3> QED
      BY <1>2, <1>6, <3>2, UnfencingStep DEF Sys!Acquire
  <2>3. CASE Sys!Return(r) /\ lock' = lock
    BY <1>4, <1>6, <2>3 DEF Sys!Acquire, LockAfter
  <2> QED
    BY <1>6, <2>1, <2>2, <2>3 DEF Sys!Acquire
<1>7. CASE Sys!Takeover(r)
  <2> DEFINE next == IF seen[r].task # place[r] THEN "markOld" ELSE "cas"
  <2>1. CASE Sys!GoWithLock(r, next)
    <3>1. next \in {"markOld", "cas"}
      OBVIOUS
    <3> HIDE DEF next
    <3> QED
      BY <1>7, <2>1, <3>1, LockStep DEF Sys!Takeover
  <2>2. CASE Sys!Return(r) /\ lock' = lock
    BY <1>4, <1>7, <2>2 DEF Sys!Takeover, LockAfter
  <2> QED
    BY <1>7, <2>1, <2>2 DEF Sys!Takeover
<1>8. CASE Sys!MarkOld(r)
  <2>1. /\ stmt[r] \in Early /\ stmt[r] \in Claiming
        /\ "cas" \in Sys!Labels /\ "giveUp" \in Sys!Labels /\ "giveUp" \notin Early
    BY <1>8 DEF Sys!MarkOld, Claiming, Sys!ClaimLabels, Sys!Labels
  <2> QED
    BY <1>3, <1>8, <2>1 DEF Sys!MarkOld, LockAfter
<1>9. CASE Sys!ClaimCAS(r)
  <2>1. CASE Sys!Go(r, "giveUp") /\ UNCHANGED <<status, owner, lost>>
    <3>1. stmt[r] \in Claiming /\ "giveUp" \in Sys!Labels /\ "giveUp" \notin Early
      BY <1>9 DEF Sys!ClaimCAS, Claiming, Sys!ClaimLabels, Sys!Labels
    <3> QED
      BY <1>3, <1>9, <2>1, <3>1 DEF Sys!ClaimCAS, LockAfter
  <2>2. CASE stmt' = [stmt EXCEPT ![r] = "reload"] /\ status[place[r]] = "pending"
    <3>1. /\ stmt[r] = "cas" /\ UNCHANGED <<place, lock>>
          /\ status' = [status EXCEPT ![place[r]] = "running"]
          /\ owner' = [owner EXCEPT ![place[r]] = r]
          /\ lost' = IF lock = Sys!LockOf(place[r], r) THEN lost ELSE lost \cup {place[r]}
      BY <1>1, <1>9, <2>2 DEF Sys!ClaimCAS, Sys!Go, Sys!TypeOK
    <3> QED
      BY <2>2, <3>1, ClaimStep
  <2> QED
    BY <1>9, <2>1, <2>2 DEF Sys!ClaimCAS
<1>10. CASE Sys!GiveUp(r)
  BY <1>4, <1>10 DEF Sys!GiveUp, Sys!Released, LockAfter
<1>11. CASE Sys!Dispatch(r)
  BY <1>4, <1>11 DEF Sys!Dispatch, LockAfter
<1>12. CASE Sys!ExpireScan(r)
  <2>1. "expMark" \in Sys!Labels /\ "expMark" \notin Claiming /\ "expMark" \notin Early
    BY DEF Sys!Labels, Claiming, Sys!ClaimLabels
  <2>2. Unfencing
    BY <1>1, <1>12, <2>1, OthersGoOn DEF Unfencing, LockAfter, Sys!ExpireScan
  <2> QED
    BY <1>2, <1>12, <2>2, UnfencingStep DEF Sys!ExpireScan
<1>13. CASE Sys!ExpireMark(r)
  <2>1. /\ "expDelete" \in Sys!Labels /\ "expDelete" \notin Claiming
        /\ "expDelete" \notin Early
    BY DEF Sys!Labels, Claiming, Sys!ClaimLabels
  <2> QED
    BY <1>3, <1>4, <1>13, <2>1 DEF Sys!ExpireMark, LockAfter
<1>14. CASE Sys!ExpireDelete(r)
  BY <1>4, <1>14 DEF Sys!ExpireDelete, LockAfter
<1> QED
  BY <1>5, <1>6, <1>7, <1>8, <1>9, <1>10, <1>11, <1>12, <1>13, <1>14
     DEF Sys!Loop

\* A step outside the loops.
LEMMA ControlUnchanged ==
    ASSUME LeaseInv, Sys!TypeOK', UNCHANGED <<stmt, place, owner>>, LockAfter,
           \A t \in Sys!Rows : status'[t] \in {"absent", "pending"} =>
                              status[t] \in {"absent", "pending"},
           \A t \in lost' :
              \/ t \in lost /\ status'[t] \in {"running", "failed"}
              \/ status'[t] = "running" /\ ~lock'.fresh
    PROVE  LeaseInv'
  BY UnfencingStep DEF Unfencing

LEMMA NextLeaseInv == LeaseInv /\ [Sys!Next]_(Sys!vars) => LeaseInv'
<1> SUFFICES ASSUME LeaseInv, [Sys!Next]_(Sys!vars) PROVE LeaseInv'
  OBVIOUS
<1>1. Sys!TypeOK /\ Sys!TypeOK' /\ RefsOK /\ LostOK
  BY SystemTypeStep DEF LeaseInv
<1>2. \A t \in lost : t \in Sys!Rows /\ status[t] \in {"running", "failed"}
  BY <1>1 DEF Sys!TypeOK, LostOK
<1>3. ASSUME NEW t \in Sys!Rows, Sys!Create(t) PROVE LeaseInv'
  BY <1>1, <1>2, <1>3, ControlUnchanged DEF Sys!Create, LockAfter, Sys!TypeOK
<1>4. ASSUME NEW t \in Sys!Rows, Sys!Handler(t) PROVE LeaseInv'
  <2>1. CASE Sys!StopOnLostLease(t)
    BY <1>1, <1>2, <2>1, ControlUnchanged DEF Sys!StopOnLostLease, LockAfter
  <2>2. ASSUME NEW result \in Sys!Terminal, Sys!Finish(t, result) PROVE LeaseInv'
    <3>1. Sys!MayFinish(t) => t \notin lost
      BY <1>1 DEF Sys!MayFinish, Sys!HoldsLease, LostOK
    <3>2. \/ status' = status
          \/ Sys!MayFinish(t) /\ status' = [status EXCEPT ![t] = result]
      BY <2>2 DEF Sys!Finish
    <3>3. /\ \A u \in Sys!Rows : status'[u] \in {"absent", "pending"} =>
                                status[u] \in {"absent", "pending"}
          /\ \A u \in lost : status'[u] \in {"running", "failed"}
      BY <1>1, <1>2, <3>1, <3>2 DEF Sys!TypeOK, Sys!Terminal
    <3> QED
      BY <1>1, <2>2, <3>3, ControlUnchanged DEF Sys!Finish, LockAfter
  <2>3. CASE Sys!FinishRelease(t)
    BY <1>1, <1>2, <2>3, ControlUnchanged
       DEF Sys!FinishRelease, Sys!Released, LockAfter
  <2> QED
    BY <1>4, <2>1, <2>2, <2>3 DEF Sys!Handler
<1>5. ASSUME NEW r \in Runners, Sys!Crash(r) PROVE LeaseInv'
  BY <1>1, <1>2, <1>5, ControlUnchanged DEF Sys!Crash, LockAfter
<1>6. CASE Sys!LeaseTimesOut
  <2>1. ~lock'.fresh
    BY <1>1, <1>6 DEF Sys!LeaseTimesOut, Sys!TypeOK, Sys!LockType
  <2> QED
    BY <1>1, <1>2, <1>6, <2>1, ControlUnchanged
       DEF Sys!LeaseTimesOut, LockAfter, Sys!HoldsLease
<1>7. CASE UNCHANGED Sys!vars
  BY <1>1, <1>2, <1>7, ControlUnchanged DEF Sys!vars, LockAfter
<1> QED
  BY <1>1, <1>3, <1>4, <1>5, <1>6, <1>7, LoopStep DEF Sys!Next

LEMMA LeaseInvariance == Sys!Spec => []LeaseInv
  BY InitLeaseInv, NextLeaseInv, PTL DEF Sys!Spec

-----------------------------------------------------------------------------
(* One handler at a time, when nobody is paused for longer than the lease. *)

\* The statements between taking the lock and the end of the claim.
Holding == {"markOld", "cas", "reload", "giveUp"}
Working == {"run", "release"}

\* A handler that runs is on a live node and has the lock.
HandlersHold ==
    \A t \in Sys!Rows : work[t] \in Working => /\ owner[t] \in up
                                               /\ lock = Sys!LockOf(t, owner[t])

\* A live node past the acquisition has the lock for the row it is claiming.
ClaimsHold ==
    \A r \in up : stmt[r] \in Holding => lock = Sys!LockOf(place[r], r)

\* A node about to start the handler owns the row, whose handler does not run;
\* one that gives up does not own it.
OwnsAtReload ==
    /\ \A r \in up : stmt[r] = "reload" => owner[place[r]] = r /\ work[place[r]] \notin Working
    /\ \A r \in up : stmt[r] = "giveUp" => owner[place[r]] # r

\* A lock row that was read to be taken over or deleted had expired.
SeenExpired == \A r \in Runners : ~seen[r].fresh

\* A handler was started on a row that has an owner.
WorkOwned == \A t \in Sys!Rows : work[t] # "none" => owner[t] \in Runners

HInv == HandlersHold /\ ClaimsHold /\ OwnsAtReload /\ SeenExpired /\ WorkOwned

LEMMA LocksDiffer ==
    /\ \A t, u, r, q : Sys!LockOf(t, r) = Sys!LockOf(u, q) => t = u /\ r = q
    /\ \A t, r : /\ Sys!LockOf(t, r).fresh /\ Sys!LockOf(t, r) # Sys!NoLock
                 /\ Sys!LockOf(t, r).task = t /\ Sys!LockOf(t, r).by = r
    /\ ~Sys!NoLock.fresh
<1>1. \A t, r : /\ Sys!LockOf(t, r).fresh = TRUE /\ Sys!LockOf(t, r).task = t
                /\ Sys!LockOf(t, r).by = r
  BY DEF Sys!LockOf
<1>2. ~Sys!NoLock.fresh
  BY DEF Sys!NoLock
<1> QED
  BY <1>1, <1>2

LEMMA InitHInv == Sys!Init => HInv
  BY DEF Sys!Init, HInv, HandlersHold, ClaimsHold, OwnsAtReload, SeenExpired,
         WorkOwned, Holding, Working, Sys!NoLock

\* A step that neither takes the lock nor frees it, starts no handler and gives
\* no row an owner.
LEMMA QuietPass ==
    ASSUME LeaseInv, HInv, UNCHANGED <<lock, owner, up>>,
           \A t \in Sys!Rows : work'[t] \in Working => work[t] \in Working,
           \A t \in Sys!Rows : work'[t] # "none" => work[t] # "none",
           \A r \in Runners :
               /\ stmt'[r] \in Holding => stmt[r] \in Holding /\ place'[r] = place[r]
               /\ stmt'[r] = "reload" => stmt[r] = "reload"
               /\ stmt'[r] = "giveUp" =>
                     stmt[r] \in {"acquire", "takeover", "markOld", "cas", "giveUp"}
               /\ ~seen'[r].fresh
    PROVE  HInv'
<1>1. Sys!TypeOK /\ ClaimOnce /\ RefsOK
  BY DEF LeaseInv
<1>2. up \subseteq Runners
  BY <1>1 DEF Sys!TypeOK
<1>3. HandlersHold'
  BY DEF HInv, HandlersHold
<1>4. ClaimsHold'
  BY <1>2 DEF HInv, ClaimsHold
<1>5. OwnsAtReload'
  <2>1. ASSUME NEW r \in up, stmt'[r] = "reload"
        PROVE  owner[place'[r]] = r /\ work'[place'[r]] \notin Working
    <3>1. stmt[r] = "reload" /\ place'[r] = place[r] /\ place[r] \in Sys!Rows
      BY <1>1, <1>2, <2>1 DEF Holding, RefsOK, Claiming, Sys!ClaimLabels
    <3> QED
      BY <3>1 DEF HInv, OwnsAtReload
  <2>2. ASSUME NEW r \in up, stmt'[r] = "giveUp"
        PROVE  owner[place'[r]] # r
    BY <1>1, <1>2, <2>2 DEF HInv, OwnsAtReload, ClaimOnce, Holding
  <2> QED
    BY <2>1, <2>2 DEF OwnsAtReload
<1>6. SeenExpired'
  BY DEF SeenExpired
<1>7. WorkOwned'
  BY DEF HInv, WorkOwned
<1> QED
  BY <1>3, <1>4, <1>5, <1>6, <1>7 DEF HInv

\* What keeps the lock: a handler that runs, and a claim on a live node.
Held ==
    \/ \E t \in Sys!Rows : work[t] \in Working
    \/ \E r \in up : stmt[r] \in Holding

\* While it is held nobody can take, expire or time the lock out.
LEMMA HeldIsFresh ==
    ASSUME LeaseInv, HInv, Held PROVE lock.fresh /\ lock # Sys!NoLock /\ Sys!HolderAlive
<1>1. Sys!TypeOK
  BY DEF LeaseInv
<1>2. ASSUME NEW t \in Sys!Rows, work[t] \in Working
      PROVE  lock.fresh /\ lock # Sys!NoLock /\ Sys!HolderAlive
  <2>1. owner[t] \in up /\ lock = Sys!LockOf(t, owner[t])
    BY <1>2 DEF HInv, HandlersHold
  <2> QED
    BY <1>2, <2>1, LocksDiffer DEF Sys!HolderAlive, Working
<1>3. ASSUME NEW r \in up, stmt[r] \in Holding
      PROVE  lock.fresh /\ lock # Sys!NoLock /\ Sys!HolderAlive
  <2>1. lock = Sys!LockOf(place[r], r)
    BY <1>3 DEF HInv, ClaimsHold
  <2> QED
    BY <1>3, <2>1, LocksDiffer DEF Sys!HolderAlive, Holding, Sys!ClaimLabels
<1> QED
  BY <1>2, <1>3 DEF Held

\* A step that changes the lock when nobody holds it, and lets nobody in but
\* perhaps a node that has just taken it.
LEMMA FreeStep ==
    ASSUME LeaseInv, HInv, ~Held, UNCHANGED <<owner, up, work>>,
           \A r \in up : stmt'[r] \in Holding =>
                            stmt'[r] \in {"markOld", "cas"} /\ lock' = Sys!LockOf(place'[r], r),
           \A r \in Runners : ~seen'[r].fresh
    PROVE  HInv'
<1>1. up \subseteq Runners
  BY DEF LeaseInv, Sys!TypeOK
<1>2. HandlersHold'
  BY DEF HandlersHold, Held
<1>3. ClaimsHold'
  BY <1>1 DEF ClaimsHold
<1>4. OwnsAtReload'
  BY <1>1 DEF OwnsAtReload, Holding
<1>5. SeenExpired' /\ WorkOwned'
  BY DEF SeenExpired, HInv, WorkOwned
<1> QED
  BY <1>2, <1>3, <1>4, <1>5 DEF HInv

\* Two nodes that hold the lock are the same, and no handler runs meanwhile.
LEMMA OneHolder ==
    ASSUME LeaseInv, HInv, NEW r \in up, stmt[r] \in Holding
    PROVE  /\ r \in Runners /\ place[r] \in Sys!Rows /\ lock = Sys!LockOf(place[r], r)
           /\ \A q \in up : stmt[q] \in Holding => q = r
           /\ \A t \in Sys!Rows : work[t] \notin Working
<1>1. Sys!TypeOK /\ RefsOK /\ ClaimOnce
  BY DEF LeaseInv
<1>2. lock = Sys!LockOf(place[r], r)
  BY DEF HInv, ClaimsHold
<1>3. r \in Runners /\ place[r] \in Sys!Rows
  BY <1>1 DEF Sys!TypeOK, RefsOK, Claiming, Sys!ClaimLabels, Holding
<1>4. \A q \in up : stmt[q] \in Holding => q = r
  BY <1>2, LocksDiffer DEF HInv, ClaimsHold
<1>5. \A t \in Sys!Rows : work[t] \in Working => t = place[r] /\ owner[t] = r
  BY <1>2, LocksDiffer DEF HInv, HandlersHold
<1>6. owner[place[r]] = r => stmt[r] = "reload"
  BY <1>1, <1>3 DEF HInv, OwnsAtReload, ClaimOnce, Holding
<1>7. \A t \in Sys!Rows : work[t] \notin Working
  BY <1>5, <1>6 DEF HInv, OwnsAtReload
<1> QED
  BY <1>2, <1>3, <1>4, <1>7

\* The end of a pass lets nobody in.
LEMMA ReturnIsQuiet ==
    ASSUME Sys!TypeOK, HInv, NEW r \in Runners, Sys!Return(r)
    PROVE  \A q \in Runners :
             /\ stmt'[q] \in Holding => q # r /\ stmt'[q] = stmt[q] /\ place'[q] = place[q]
             /\ stmt'[q] = "reload" => stmt[q] = "reload"
             /\ stmt'[q] = "giveUp" => stmt[q] = "giveUp"
             /\ ~seen'[q].fresh
  BY DEF Sys!TypeOK, HInv, SeenExpired, Sys!Return, Holding, Sys!NoLock

LEMMA ReturnStep ==
    ASSUME LeaseInv, HInv, NEW r \in Runners, Sys!Return(r),
           UNCHANGED <<lock, owner, work, up>>
    PROVE  HInv'
<1>1. Sys!TypeOK
  BY DEF LeaseInv
<1>2. \A q \in Runners :
         /\ stmt'[q] \in Holding => stmt[q] \in Holding /\ place'[q] = place[q]
         /\ stmt'[q] = "reload" => stmt[q] = "reload"
         /\ stmt'[q] = "giveUp" =>
               stmt[q] \in {"acquire", "takeover", "markOld", "cas", "giveUp"}
         /\ ~seen'[q].fresh
  BY <1>1, ReturnIsQuiet
<1> QED
  BY <1>2, QuietPass

\* Another statement of the same pass that keeps what the node holds.
LEMMA GoStep ==
    ASSUME LeaseInv, HInv, NEW r \in Runners, NEW l, Sys!Go(r, l),
           l \in Holding => stmt[r] \in {"markOld", "cas"}, l # "reload",
           UNCHANGED <<lock, owner, work, up>>
    PROVE  HInv'
<1>1. Sys!TypeOK
  BY DEF LeaseInv
<1>2. \A q \in Runners :
         /\ stmt'[q] \in Holding => stmt[q] \in Holding /\ place'[q] = place[q]
         /\ stmt'[q] = "reload" => stmt[q] = "reload"
         /\ stmt'[q] = "giveUp" =>
               stmt[q] \in {"acquire", "takeover", "markOld", "cas", "giveUp"}
         /\ ~seen'[q].fresh
  BY <1>1 DEF Sys!TypeOK, HInv, SeenExpired, Sys!Go, Holding
<1> QED
  BY <1>2, QuietPass

\* A node that finds the lock row free or expired takes it.
LEMMA TakeLock ==
    ASSUME LeaseInv, HInv, NEW r \in Runners, NEW l \in {"markOld", "cas"},
           lock = Sys!NoLock \/ Sys!Expired, Sys!GoWithLock(r, l), r \in up,
           UNCHANGED <<owner, up, work>>
    PROVE  HInv'
<1>1. Sys!TypeOK
  BY DEF LeaseInv
<1>2. ~Held
  BY HeldIsFresh DEF Sys!Expired
<1>3. /\ place' = place /\ seen' = seen
      /\ stmt' = [stmt EXCEPT ![r] = l] /\ lock' = Sys!LockOf(place[r], r)
  BY DEF Sys!GoWithLock
<1>4. \A q \in up : stmt'[q] \in Holding =>
            stmt'[q] \in {"markOld", "cas"} /\ lock' = Sys!LockOf(place'[q], q)
  BY <1>1, <1>2, <1>3 DEF Sys!TypeOK, Held
<1>5. \A q \in Runners : ~seen'[q].fresh
  BY <1>3 DEF HInv, SeenExpired
<1> QED
  BY <1>2, <1>4, <1>5, FreeStep

LEMMA AcquireHolds ==
    ASSUME LeaseInv, HInv, NEW r \in Runners, r \in up, Sys!Acquire(r) PROVE HInv'
<1>1. Sys!TypeOK
  BY DEF LeaseInv
<1>2. UNCHANGED <<owner, work, up>>
  BY DEF Sys!Acquire
<1>3. CASE lock = Sys!NoLock /\ Sys!GoWithLock(r, "cas")
  BY <1>2, <1>3, TakeLock
<1>4. CASE /\ Sys!Expired /\ seen' = [seen EXCEPT ![r] = lock]
           /\ stmt' = [stmt EXCEPT ![r] = "takeover"] /\ UNCHANGED <<lock, place>>
  <2>1. \A q \in Runners :
           /\ stmt'[q] \in Holding => stmt[q] \in Holding /\ place'[q] = place[q]
           /\ stmt'[q] = "reload" => stmt[q] = "reload"
           /\ stmt'[q] = "giveUp" =>
                 stmt[q] \in {"acquire", "takeover", "markOld", "cas", "giveUp"}
           /\ ~seen'[q].fresh
    BY <1>1, <1>4 DEF Sys!TypeOK, HInv, SeenExpired, Holding, Sys!Expired
  <2> QED
    BY <1>2, <1>4, <2>1, QuietPass
<1>5. CASE Sys!Return(r) /\ UNCHANGED lock
  BY <1>2, <1>5, ReturnStep
<1> QED
  BY <1>3, <1>4, <1>5 DEF Sys!Acquire

LEMMA TakeoverHolds ==
    ASSUME LeaseInv, HInv, NEW r \in Runners, r \in up, Sys!Takeover(r) PROVE HInv'
<1>1. UNCHANGED <<owner, work, up>>
  BY DEF Sys!Takeover
<1> DEFINE next == IF seen[r].task # place[r] THEN "markOld" ELSE "cas"
<1>2. next \in {"markOld", "cas"}
  OBVIOUS
<1>3. \/ Sys!Expired /\ Sys!GoWithLock(r, next)
      \/ Sys!Return(r) /\ UNCHANGED lock
  BY DEF Sys!Takeover
<1> HIDE DEF next
<1> QED
  BY <1>1, <1>2, <1>3, TakeLock, ReturnStep

\* The row was pending, so it had no owner and no handler.
LEMMA ClaimHolds ==
    ASSUME LeaseInv, HInv, NEW r \in Runners, r \in up, Sys!ClaimCAS(r) PROVE HInv'
<1>1. Sys!TypeOK /\ OwnerOK
  BY DEF LeaseInv
<1>2. UNCHANGED <<lock, work, up, seen>> /\ stmt[r] = "cas"
  BY DEF Sys!ClaimCAS, Sys!Go
<1>3. CASE Sys!Go(r, "giveUp") /\ UNCHANGED owner
  BY <1>2, <1>3, GoStep
<1>4. CASE /\ status[place[r]] = "pending" /\ owner' = [owner EXCEPT ![place[r]] = r]
           /\ stmt' = [stmt EXCEPT ![r] = "reload"] /\ place' = place
  <2>1. /\ place[r] \in Sys!Rows /\ lock = Sys!LockOf(place[r], r)
        /\ \A q \in up : stmt[q] \in Holding => q = r
        /\ \A t \in Sys!Rows : work[t] \notin Working
    BY <1>2, OneHolder DEF Holding
  <2>2. \A q \in up : stmt'[q] \in Holding => q = r
    BY <1>1, <1>4, <2>1 DEF Sys!TypeOK
  <2>3. stmt'[r] = "reload" /\ owner'[place'[r]] = r
    BY <1>1, <1>4, <2>1 DEF Sys!TypeOK
  <2>4. HandlersHold'
    BY <1>2, <2>1 DEF HandlersHold
  <2>5. ClaimsHold'
    BY <1>2, <1>4, <2>1, <2>2 DEF ClaimsHold
  <2>6. OwnsAtReload'
    BY <1>2, <1>4, <2>1, <2>2, <2>3 DEF OwnsAtReload, Holding
  <2>7. SeenExpired'
    BY <1>2 DEF HInv, SeenExpired
  <2>8. WorkOwned'
    BY <1>1, <1>2, <1>4 DEF HInv, WorkOwned, Sys!TypeOK
  <2> QED
    BY <2>4, <2>5, <2>6, <2>7, <2>8 DEF HInv
<1> QED
  BY <1>3, <1>4 DEF Sys!ClaimCAS

LEMMA GiveUpHolds ==
    ASSUME LeaseInv, HInv, NEW r \in Runners, r \in up, Sys!GiveUp(r) PROVE HInv'
<1>1. Sys!TypeOK
  BY DEF LeaseInv
<1>2. UNCHANGED <<owner, work, up>> /\ Sys!Return(r) /\ stmt[r] \in Holding
  BY DEF Sys!GiveUp, Holding
<1>3. /\ \A q \in up : stmt[q] \in Holding => q = r
      /\ \A t \in Sys!Rows : work[t] \notin Working
  BY <1>2, OneHolder
<1>4. \A q \in up : stmt'[q] \notin Holding
  BY <1>1, <1>2, <1>3, ReturnIsQuiet DEF Sys!TypeOK
<1>5. SeenExpired'
  BY <1>1, <1>2, ReturnIsQuiet DEF SeenExpired
<1>6. HandlersHold' /\ ClaimsHold' /\ OwnsAtReload' /\ WorkOwned'
  BY <1>2, <1>3, <1>4
     DEF HandlersHold, ClaimsHold, OwnsAtReload, HInv, WorkOwned, Holding
<1> QED
  BY <1>5, <1>6 DEF HInv

LEMMA DispatchHolds ==
    ASSUME LeaseInv, HInv, NEW r \in Runners, r \in up, Sys!Dispatch(r) PROVE HInv'
<1>1. Sys!TypeOK
  BY DEF LeaseInv
<1>2. UNCHANGED <<owner, lock, up>> /\ Sys!Return(r) /\ stmt[r] = "reload"
  BY DEF Sys!Dispatch
<1>3. CASE UNCHANGED work
  BY <1>2, <1>3, ReturnStep
<1>4. CASE work' = [work EXCEPT ![place[r]] = "run"]
  <2>1. /\ place[r] \in Sys!Rows /\ lock = Sys!LockOf(place[r], r) /\ owner[place[r]] = r
        /\ \A q \in up : stmt[q] \in Holding => q = r
        /\ \A t \in Sys!Rows : work[t] \notin Working
    BY <1>2, OneHolder DEF Holding, HInv, OwnsAtReload
  <2>2. \A t \in Sys!Rows : work'[t] # work[t] => t = place[r]
    BY <1>1, <1>4 DEF Sys!TypeOK
  <2>3. \A q \in up : stmt'[q] \notin Holding
    BY <1>1, <1>2, <2>1, ReturnIsQuiet DEF Sys!TypeOK
  <2>4. HandlersHold'
    BY <1>2, <2>1, <2>2 DEF HandlersHold
  <2>5. ClaimsHold' /\ OwnsAtReload'
    BY <1>2, <2>3 DEF ClaimsHold, OwnsAtReload, Holding
  <2>6. SeenExpired'
    BY <1>1, <1>2, ReturnIsQuiet DEF SeenExpired
  <2>7. WorkOwned'
    BY <1>2, <2>1, <2>2 DEF HInv, WorkOwned
  <2> QED
    BY <2>4, <2>5, <2>6, <2>7 DEF HInv
<1> QED
  BY <1>3, <1>4 DEF Sys!Dispatch

\* The lock row that is deleted is an expired one.
LEMMA ExpireDeleteHolds ==
    ASSUME LeaseInv, HInv, NEW r \in Runners, r \in up, Sys!ExpireDelete(r) PROVE HInv'
<1>1. Sys!TypeOK
  BY DEF LeaseInv
<1>2. UNCHANGED <<owner, work, up>> /\ Sys!Return(r)
  BY DEF Sys!ExpireDelete
<1>3. CASE UNCHANGED lock
  BY <1>2, <1>3, ReturnStep
<1>4. CASE lock = seen[r]
  <2>1. ~Held
    BY <1>4, HeldIsFresh DEF HInv, SeenExpired
  <2>2. \A q \in up : stmt'[q] \notin Holding
    BY <1>1, <1>2, <2>1, ReturnIsQuiet DEF Sys!TypeOK, Held
  <2>3. \A q \in Runners : ~seen'[q].fresh
    BY <1>1, <1>2, ReturnIsQuiet
  <2> QED
    BY <1>2, <2>1, <2>2, <2>3, FreeStep
<1> QED
  BY <1>3, <1>4 DEF Sys!ExpireDelete

LEMMA LoopHolds == ASSUME LeaseInv, HInv, NEW r \in Runners, Sys!Loop(r) PROVE HInv'
<1>1. Sys!TypeOK /\ r \in up
  BY DEF LeaseInv, Sys!Loop
<1>2. CASE Sys!ClaimScan(r)
  <2>1. \A q \in Runners :
           /\ stmt'[q] \in Holding => stmt[q] \in Holding /\ place'[q] = place[q]
           /\ stmt'[q] = "reload" => stmt[q] = "reload"
           /\ stmt'[q] = "giveUp" =>
                 stmt[q] \in {"acquire", "takeover", "markOld", "cas", "giveUp"}
           /\ ~seen'[q].fresh
    BY <1>1, <1>2 DEF Sys!TypeOK, HInv, SeenExpired, Holding, Sys!ClaimScan
  <2> QED
    BY <1>2, <2>1, QuietPass DEF Sys!ClaimScan
<1>3. CASE Sys!MarkOld(r)
  BY <1>1, <1>3, GoStep DEF Sys!MarkOld, Holding
<1>4. CASE Sys!ExpireScan(r)
  <2>1. \A q \in Runners :
           /\ stmt'[q] \in Holding => stmt[q] \in Holding /\ place'[q] = place[q]
           /\ stmt'[q] = "reload" => stmt[q] = "reload"
           /\ stmt'[q] = "giveUp" =>
                 stmt[q] \in {"acquire", "takeover", "markOld", "cas", "giveUp"}
           /\ ~seen'[q].fresh
    BY <1>1, <1>4
       DEF Sys!TypeOK, HInv, SeenExpired, Holding, Sys!ExpireScan, Sys!Expired
  <2> QED
    BY <1>4, <2>1, QuietPass DEF Sys!ExpireScan
<1>5. CASE Sys!ExpireMark(r)
  BY <1>1, <1>5, GoStep, ReturnStep DEF Sys!ExpireMark, Holding
<1> QED
  BY <1>1, <1>2, <1>3, <1>4, <1>5, AcquireHolds, TakeoverHolds, ClaimHolds,
     GiveUpHolds, DispatchHolds, ExpireDeleteHolds
     DEF Sys!Loop

\* A handler that ends: its own lock is the only one it can release.
LEMMA HandlerHolds == ASSUME LeaseInv, HInv, NEW t \in Sys!Rows, Sys!Handler(t) PROVE HInv'
<1>1. Sys!TypeOK /\ UNCHANGED <<owner, stmt, place, seen, up>>
  BY DEF LeaseInv, Sys!Handler, Sys!StopOnLostLease, Sys!Finish,
         Sys!FinishRelease
<1>2. \A u \in Sys!Rows : /\ work'[u] \in Working => work[u] \in Working
                          /\ work'[u] # "none" => work[u] # "none"
  BY <1>1
     DEF Sys!TypeOK, Sys!Handler, Sys!StopOnLostLease, Sys!Finish,
         Sys!FinishRelease, Working
<1>3. \A q \in Runners :
         /\ stmt'[q] \in Holding => stmt[q] \in Holding /\ place'[q] = place[q]
         /\ stmt'[q] = "reload" => stmt[q] = "reload"
         /\ stmt'[q] = "giveUp" =>
               stmt[q] \in {"acquire", "takeover", "markOld", "cas", "giveUp"}
         /\ ~seen'[q].fresh
  BY <1>1 DEF HInv, SeenExpired
<1>4. CASE UNCHANGED lock
  BY <1>1, <1>2, <1>3, <1>4, QuietPass
<1>5. CASE Sys!FinishRelease(t)
  <2>1. work[t] \in Working /\ work' = [work EXCEPT ![t] = "stopped"]
    BY <1>5 DEF Sys!FinishRelease, Working
  <2>2. lock = Sys!LockOf(t, owner[t])
    BY <2>1 DEF HInv, HandlersHold
  <2>3. \A u \in Sys!Rows : work[u] \in Working => u = t
    BY <2>2, LocksDiffer DEF HInv, HandlersHold
  <2>4. \A u \in Sys!Rows : work'[u] \notin Working
    BY <1>1, <1>2, <2>1, <2>3 DEF Sys!TypeOK, Working
  <2>5. \A q \in up : stmt'[q] \notin Holding
    BY <1>1, <2>1, OneHolder
  <2>6. HandlersHold' /\ ClaimsHold' /\ OwnsAtReload' /\ SeenExpired' /\ WorkOwned'
    BY <1>1, <1>2, <2>4, <2>5
       DEF HandlersHold, ClaimsHold, OwnsAtReload, SeenExpired, WorkOwned, HInv,
           Holding
  <2> QED
    BY <2>6 DEF HInv
<1> QED
  BY <1>4, <1>5 DEF Sys!Handler, Sys!StopOnLostLease, Sys!Finish

\* The handlers of a node that stops, stop with it.
LEMMA CrashHolds == ASSUME LeaseInv, HInv, NEW r \in Runners, Sys!Crash(r) PROVE HInv'
<1>1. Sys!TypeOK
  BY DEF LeaseInv
<1>2. /\ up' = up \ {r} /\ UNCHANGED <<owner, lock, stmt, place, seen>>
      /\ \A t \in Sys!Rows : /\ work'[t] \in Working => work[t] \in Working /\ owner[t] # r
                             /\ work'[t] # "none" => work[t] # "none"
  BY <1>1 DEF Sys!Crash, Working, Sys!TypeOK
<1>3. HandlersHold' /\ ClaimsHold' /\ SeenExpired' /\ WorkOwned'
  BY <1>2 DEF HandlersHold, ClaimsHold, SeenExpired, WorkOwned, HInv
<1>4. \A q \in up : stmt[q] = "reload" => place[q] \in Sys!Rows
  BY <1>1 DEF LeaseInv, RefsOK, Sys!TypeOK, Claiming, Sys!ClaimLabels
<1>5. OwnsAtReload'
  BY <1>2, <1>4 DEF OwnsAtReload, HInv
<1> QED
  BY <1>3, <1>5 DEF HInv

LEMMA NextHInv == ASSUME ~Pauses, LeaseInv, HInv, [Sys!Next]_(Sys!vars) PROVE HInv'
<1>1. Sys!TypeOK
  BY DEF LeaseInv
<1>2. ASSUME UNCHANGED <<lock, owner, stmt, place, seen, work, up>> PROVE HInv'
  BY <1>2, QuietPass DEF HInv, SeenExpired
<1>3. ASSUME NEW t \in Sys!Rows, Sys!Create(t) PROVE HInv'
  BY <1>2, <1>3 DEF Sys!Create
<1>4. CASE Sys!LeaseTimesOut
  <2>1. Sys!InTime /\ UNCHANGED <<owner, stmt, place, seen, work, up>>
    BY <1>4 DEF Sys!LeaseTimesOut
  <2>2. ~Held
    BY <2>1, HeldIsFresh DEF Sys!InTime
  <2>3. \A q \in up : stmt'[q] \notin Holding
    BY <2>1, <2>2 DEF Held
  <2>4. \A q \in Runners : ~seen'[q].fresh
    BY <2>1 DEF HInv, SeenExpired
  <2> QED
    BY <2>1, <2>2, <2>3, <2>4, FreeStep
<1>5. CASE UNCHANGED Sys!vars
  BY <1>2, <1>5 DEF Sys!vars
<1> QED
  BY <1>3, <1>4, <1>5, HandlerHolds, LoopHolds, CrashHolds DEF Sys!Next

\* The number of elements, as the runner's module and this one count them.
LEMMA SameCount == ASSUME NEW S PROVE Sys!Cardinality(S) = Cardinality(S)
  BY DEF Sys!Cardinality, Cardinality

LEMMA OneRuns == ASSUME LeaseInv, HInv PROVE Sys!OneHandlerAtATime
<1> DEFINE R == {t \in Sys!Rows : work[t] = "run"}
<1>1. \A t, u \in R : t = u
  BY LocksDiffer DEF HInv, HandlersHold, Working
<1>2. CASE R = {}
  BY <1>2, FS_EmptySet, SameCount DEF Sys!OneHandlerAtATime
<1>3. CASE R # {}
  <2>1. PICK t \in R : TRUE
    BY <1>3
  <2>2. R = {t}
    BY <1>1, <2>1
  <2>3. Cardinality({t}) = 1
    BY FS_Singleton
  <2>4. Cardinality(R) <= 1
    BY <2>2, <2>3
  <2> QED
    BY <2>4, SameCount DEF Sys!OneHandlerAtATime
<1> QED
  BY <1>2, <1>3

-----------------------------------------------------------------------------
(* Theorems.                                                               *)

\* The rows, the lock and the nodes keep their types.
THEOREM SystemTypeCorrect == Sys!Spec => []Sys!TypeOK
<1>1. LeaseInv => Sys!TypeOK
  BY DEF LeaseInv
<1> QED
  BY <1>1, LeaseInvariance, PTL

\* The lease fences the result, for any number of nodes and even if a lease may
\* run out at any moment: once it is lost, FinishSystemTask never records success.
THEOREM LeaseFences == Sys!Spec => []LostLeaseNeverSucceeds
<1>1. LeaseInv => LostLeaseNeverSucceeds
  BY DEF LeaseInv, LostOK, LostLeaseNeverSucceeds, Sys!LostLeaseNeverSucceeds
<1> QED
  BY <1>1, LeaseInvariance, PTL

\* When nobody is paused for longer than the lease, no two handlers of the type
\* run at once, for any number of nodes and tasks and whichever of them crash or
\* fail at whichever statement: "the per-type lock guarantees only one runner
\* executes the task" (runSystemTaskScheduler).
THEOREM OneHandlerOfType ==
    ASSUME ~Pauses
    PROVE  MCSpec => []OneHandler
<1> DEFINE Inv == part # "late" => LeaseInv /\ HInv
<1>1. MCInit => Inv
  BY InitLeaseInv, InitHInv DEF MCInit
<1>2. Inv /\ [MCNext]_<<part, vars, mjVars, sysVars>> => Inv'
  <2> SUFFICES ASSUME Inv, [MCNext]_<<part, vars, mjVars, sysVars>>, part' # "late"
               PROVE  (LeaseInv /\ HInv)'
    OBVIOUS
  <2>1. part # "late" /\ [Sys!Next]_(Sys!vars)
    BY DEF MCNext, sysVars, Sys!vars
  <2> QED
    BY <2>1, NextLeaseInv, NextHInv
<1>3. Inv => OneHandler
  BY OneRuns DEF OneHandler
<1> QED
  BY <1>1, <1>2, <1>3, PTL DEF MCSpec
=============================================================================
