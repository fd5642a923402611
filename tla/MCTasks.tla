------------------------------ MODULE MCTasks ------------------------------
(***************************************************************************)
(* Asynchronous tasks, Midjourney tasks and the runner whose tasks poll    *)
(* them.  A behaviour is one of TaskPolling, with passes that overlap or   *)
(* with one pass at a time, one of Midjourney, or one of SystemTask, with  *)
(* nodes that renew their leases in time or with nodes that may be paused  *)
(* for longer than the lease: the others stand still in an initial state.  *)
(***************************************************************************)
EXTENDS TaskRealtime

CONSTANTS
  LonePoller,              \* the poller whose passes do not overlap
  h1, h2, l1, l2,          \* the Midjourney passes
  MjHandlers, MjLoops, MjPrice, MjItems, MjSetups  \* of Midjourney

\* The statuses; no step tells another one from "SUBMITTED".
MjStatuses == {"NOT_START", "SUBMITTED", "IN_PROGRESS", "SUCCESS", "FAILURE"}

\* A task that is not complete has failed if and only if its status says so.
ASSUME MidjourneyAssumption ==
  /\ MjHandlers \cap MjLoops = {}
  /\ MjPrice \in Nat
  /\ MjItems \subseteq [status : MjStatuses, full : BOOLEAN, reason : BOOLEAN]
  /\ \A item \in MjItems :
        ~item.full => (item.reason <=> item.status = "FAILURE")
  /\ \A s \in MjSetups : s.errors \in Nat

CONSTANTS  \* of SystemTask
  Runners, NoRunner, Stable, MaxTasks, Failures, Pauses,
  Pausing    \* the nodes that may be paused, where that is explored

VARIABLES
  part, setup, mjRow, sub, mjWorker, wallet, tokens, overdue, mjBulk, mjCut,
  errors, mjCrashes

mjVars == <<setup, mjRow, sub, mjWorker, wallet, tokens, overdue, mjBulk, mjCut,
            errors, mjCrashes>>

VARIABLES status, owner, lock, stmt, place, seen, older, work, up, failures, lost

sysVars == <<status, owner, lock, stmt, place, seen, older, work, up, failures,
             lost>>

Item(s, full, reason) == [status |-> s, full |-> full, reason |-> reason]

\* Two passes of the handler, an error and crashes.
HandlerOnly ==
  [active |-> {h1, h2}, early |-> FALSE, forgets |-> TRUE,
   interrupted |-> FALSE, errors |-> 1, crashes |-> 2]

\* Loops and a handler from the first moment of the row on.
Overlapping ==
  [active |-> {h1, l1, l2}, early |-> TRUE, forgets |-> TRUE,
   interrupted |-> TRUE, errors |-> 0, crashes |-> 1]

\* An upstream that always answers.
Answering ==
  [active |-> {h1, l1}, early |-> TRUE, forgets |-> FALSE,
   interrupted |-> FALSE, errors |-> 0, crashes |-> 1]

MCSetups == {HandlerOnly, Overlapping, Answering}
MCItems == {Item("IN_PROGRESS", FALSE, FALSE), Item("SUCCESS", TRUE, FALSE),
            Item("FAILURE", TRUE, TRUE), Item("FAILURE", FALSE, TRUE)}

Midj == INSTANCE Midjourney WITH
  Handlers <- MjHandlers, Loops <- MjLoops, Price <- MjPrice, Items <- MjItems,
  Setups <- MjSetups,
  row <- mjRow, worker <- mjWorker, bulk <- mjBulk, cut <- mjCut,
  crashes <- mjCrashes

Sys == INSTANCE SystemTask WITH
  FaultBudget <- Failures, pc <- stmt, at <- place, faults <- failures

Late == INSTANCE SystemTask WITH
  Runners <- Pausing, Stable <- Pausing, FaultBudget <- 0, Pauses <- TRUE,
  pc <- stmt, at <- place, faults <- failures

ASSUME RunnerAssumption == Sys!SystemTaskAssumption /\ Late!SystemTaskAssumption

-----------------------------------------------------------------------------
MCInit ==
  /\ part \in {"overlap", "single", "midjourney", "system", "late"}
  /\ Init
  /\ Midj!Init /\ (part # "midjourney" => setup = CHOOSE s \in MjSetups : TRUE)
  /\ IF part = "late" THEN Late!Init ELSE Sys!Init

\* One pass at a time: the other pollers do nothing.
Single == \A w \in Pollers \ {LonePoller} : pc'[w] = "idle"

MCNext ==
  /\ \/ part = "overlap" /\ Next /\ UNCHANGED <<mjVars, sysVars>>
     \/ part = "single" /\ Next /\ Single /\ UNCHANGED <<mjVars, sysVars>>
     \/ part = "midjourney" /\ Midj!Next /\ UNCHANGED <<vars, sysVars>>
     \/ part = "system" /\ Sys!Next /\ UNCHANGED <<vars, mjVars>>
     \/ part = "late" /\ Late!Next /\ UNCHANGED <<vars, mjVars>>
  /\ UNCHANGED part

\* The fairness of TaskPolling, for passes one at a time, of Midjourney, and of
\* SystemTask, for nodes that renew in time.
MCFairness ==
  /\ WF_vars(part = "single" /\ Step(LonePoller))
  /\ SF_vars(part = "single" /\ SweepAny(LonePoller))
  /\ WF_mjVars(part = "midjourney" /\ Midj!HourPasses)
  /\ \A w \in {h1, l1} : WF_mjVars(part = "midjourney" /\ Midj!Pass(w))
  /\ \A r \in Runners : WF_sysVars(part = "system" /\ Sys!Loop(r))
  /\ \A t \in Sys!Rows : WF_sysVars(part = "system" /\ Sys!Handler(t))
  /\ WF_sysVars(part = "system" /\ Sys!InTime /\ Sys!LeaseTimesOut)

MCSpec == MCInit /\ [][MCNext]_<<part, vars, mjVars, sysVars>> /\ MCFairness

\* With clients that fetch a task in real time.
MCSpecRealtime ==
  /\ MCInit /\ part = "overlap"
  /\ [][NextRealtime /\ UNCHANGED <<part, mjVars, sysVars>>]_
        <<part, vars, mjVars, sysVars>>

-----------------------------------------------------------------------------
\* What a Midjourney task has cost is on record, and a failed one gives it back
\* exactly once.
RefundIsExact == Midj!RefundIsExact

\* "the per-type lock guarantees only one runner executes the task"
\* (runSystemTaskScheduler): when holders renew in time, no two handlers of the
\* type run at once, across crashes and takeovers.
OneHandler == part # "late" => Sys!OneHandlerAtATime

\* The lease fences the result: a task whose lease ran out, was taken over or
\* was released by someone else while it was running never ends as succeeded,
\* even though its handler may go on for a while (FinishSystemTask).
LostLeaseNeverSucceeds == Sys!LostLeaseNeverSucceeds

\* With passes one at a time every task ends, even if its upstream never does
\* and the pollers crash; and so does a Midjourney task, after an hour at the
\* latest, if its upstream answers.
TasksEnd ==
  /\ part = "single" => EveryTaskEnds
  /\ part = "midjourney" => Midj!EveryTaskEnds

\* When holders renew in time, every system task that was created comes to an
\* end, whichever node crashes and at whichever statement, so that the next one
\* of its type can be created.
SystemTasksEnd == part = "system" => Sys!EveryTaskEnds
=============================================================================
