---------------------------- MODULE Midjourney ----------------------------
(***************************************************************************)
(* A Midjourney task: its row, its submission and the passes that poll it. *)
(*                                                                         *)
(* The submission inserts the row with the price as its refund marker, and *)
(* then charges the wallet and the token and records what it charged.  Two *)
(* kinds of pass poll the open rows on a master node: the handler of the   *)
(* system task, and the older loop UpdateMidjourneyTaskBulk that main      *)
(* still starts.  Both write the whole row they read, on condition that    *)
(* its status has not changed, and give the quota of a failed task back.   *)
(***************************************************************************)
EXTENDS Integers, FiniteSets

CONSTANTS
  Handlers,     \* passes of runMidjourneyTaskUpdateOnce
  Loops,        \* loops of UpdateMidjourneyTaskBulk
  Price,        \* the price of a task that is billed
  Items,        \* what the upstream may say of a task
  Setups        \* the circumstances a run explores

VARIABLE setup  \* those of this behaviour; they never change

Active == setup.active            \* the passes that run
Early == setup.early              \* passes may read the row before its submission is over
Forgets == setup.forgets          \* the upstream may leave the task out of its answer
Interrupted == setup.interrupted  \* the submission may be cut off too
MaxErrors == setup.errors         \* bound on statements that fail
MaxCrashes == setup.crashes       \* bound on passes and submissions that are cut off

VARIABLES
  row,      \* the row of midjourneys
  sub,      \* the submission: where it is and its copy of quota and token
  worker,   \* the passes: where each is and its copy of the row
  wallet,   \* what the user's wallet has given
  tokens,   \* what the token has given
  overdue,  \* the task is more than an hour old
  bulk,     \* history: the row was failed in bulk
  cut,      \* history: a billing was cut off or one of its statements failed
  errors,   \* statements that failed
  crashes   \* passes and submissions that were cut off

vars == <<setup, row, sub, worker, wallet, tokens, overdue, bulk, cut, errors, crashes>>

Workers == Handlers \cup Loops

NoRow == [status |-> "none", full |-> TRUE, quota |-> 0, token |-> FALSE]
Idle == [pc |-> "idle", copy |-> NoRow]

-----------------------------------------------------------------------------
Init ==
  /\ setup \in Setups
  /\ row = NoRow
  /\ sub = [pc |-> "insert", quota |-> 0, token |-> FALSE]
  /\ worker = [w \in Workers |-> Idle]
  /\ wallet = 0 /\ tokens = 0
  /\ overdue = FALSE /\ bulk = FALSE /\ cut = FALSE
  /\ errors = 0 /\ crashes = 0

\* A statement fails and changes nothing.
Failing == errors < MaxErrors /\ errors' = errors + 1

\* PrepareMidjourneyTaskBilling: the refund marker of the row.
Marker(billed) == IF billed THEN Price ELSE 0

\* The submission inserts the row; a task the upstream already had may be over.
Insert ==
  /\ sub.pc = "insert"
  /\ \/ /\ Failing
        /\ sub' = [sub EXCEPT !.pc = "over"]
        /\ UNCHANGED row
     \/ \E billed, finished \in BOOLEAN :
          /\ row' = [status |-> IF finished THEN "SUCCESS" ELSE "NOT_START",
                     full |-> finished, quota |-> Marker(billed), token |-> FALSE]
          /\ sub' = [pc |-> IF billed THEN "fund" ELSE "over",
                     quota |-> Marker(billed), token |-> FALSE]
          /\ UNCHANGED errors
  /\ UNCHANGED <<setup, worker, wallet, tokens, overdue, bulk, cut, crashes>>

\* SettleMidjourneyTaskBilling: the wallet, then the token, then the record.
Fund ==
  /\ sub.pc = "fund"
  /\ \/ /\ Failing
        /\ sub' = [pc |-> "record", quota |-> 0, token |-> FALSE]
        /\ UNCHANGED wallet
     \/ /\ wallet' = wallet + sub.quota
        /\ sub' = [sub EXCEPT !.pc = "token"]
        /\ UNCHANGED errors
  /\ UNCHANGED <<setup, row, worker, tokens, overdue, bulk, cut, crashes>>

Token ==
  /\ sub.pc = "token"
  /\ \/ Failing /\ sub' = [sub EXCEPT !.pc = "record"] /\ UNCHANGED tokens
     \/ /\ tokens' = tokens + sub.quota
        /\ sub' = [sub EXCEPT !.pc = "record", !.token = TRUE]
        /\ UNCHANGED errors
  /\ UNCHANGED <<setup, row, worker, wallet, overdue, bulk, cut, crashes>>

\* UpdateBillingState: only the quota and the token.
Record ==
  /\ sub.pc = "record"
  /\ \/ Failing /\ cut' = TRUE /\ UNCHANGED row
     \/ /\ row' = [row EXCEPT !.quota = sub.quota, !.token = sub.token]
        /\ UNCHANGED <<errors, cut>>
  /\ sub' = [sub EXCEPT !.pc = "over"]
  /\ UNCHANGED <<setup, worker, wallet, tokens, overdue, bulk, crashes>>

Submission == Insert \/ Fund \/ Token \/ Record

-----------------------------------------------------------------------------
\* GetAllUnFinishTasks.
Read(w) ==
  /\ worker[w].pc = "idle" /\ w \in Active
  /\ ~row.full
  /\ Early \/ sub.pc = "over"
  /\ worker' = [worker EXCEPT ![w] = [pc |-> "ask", copy |-> row]]
  /\ UNCHANGED <<setup, row, sub, wallet, tokens, overdue, bulk, cut, errors, crashes>>

\* The channel cannot be loaded, or the row has no upstream id: the row is
\* failed whatever its status is by now, and nothing is given back.
BulkFail(w) ==
  /\ worker[w].pc = "ask"
  /\ row' = [row EXCEPT !.status = "FAILURE", !.full = TRUE]
  /\ bulk' = TRUE
  /\ worker' = [worker EXCEPT ![w] = Idle]
  /\ UNCHANGED <<setup, sub, wallet, tokens, overdue, cut, errors, crashes>>

\* The upstream does not answer, or not about this task.
Unanswered(w) ==
  /\ worker[w].pc = "ask"
  /\ Forgets
  /\ worker' = [worker EXCEPT ![w] = Idle]
  /\ UNCHANGED <<setup, row, sub, wallet, tokens, overdue, bulk, cut, errors, crashes>>

\* Mutant: the age of the task does not matter.
AdjustedNever(item) == item

\* After an hour every task that is not complete is taken for failed.
Adjusted(item) ==
  IF overdue THEN [item EXCEPT !.status = "FAILURE", !.reason = TRUE] ELSE item

Failed(item) == IF item.full THEN item.status = "FAILURE" ELSE item.reason

\* The copy as the pass writes it.
Applied(copy, item) ==
  [copy EXCEPT !.status = item.status, !.full = item.full \/ Failed(item)]

\* The condition of UpdateWithStatus.
Wins(from) == row.status = from

\* An answer, and UpdateWithStatus with the row that comes of it.
Update(w) ==
  /\ worker[w].pc = "ask"
  /\ \E said \in Items :
       LET item == Adjusted(said)
           copy == Applied(worker[w].copy, item)
           due == Failed(item) /\ copy.quota # 0
       IN \/ /\ Failing
             /\ worker' = [worker EXCEPT ![w] = Idle]
             /\ UNCHANGED row
          \/ /\ Wins(worker[w].copy.status)
             /\ row' = copy
             /\ worker' = [worker EXCEPT ![w] =
                             IF due THEN [pc |-> "pay", copy |-> copy] ELSE Idle]
             /\ UNCHANGED errors
          \/ /\ ~Wins(worker[w].copy.status)
             /\ worker' = [worker EXCEPT ![w] = Idle]
             /\ UNCHANGED <<row, errors>>
  /\ UNCHANGED <<setup, sub, wallet, tokens, overdue, bulk, cut, crashes>>

\* The wallet gets the quota back.  The older loop stops there; the handler
\* (RefundMidjourneyQuota) goes on unless this fails.
Pay(w) ==
  /\ worker[w].pc = "pay"
  /\ \/ /\ Failing
        /\ cut' = TRUE
        /\ worker' = [worker EXCEPT ![w] = Idle]
        /\ UNCHANGED wallet
     \/ /\ wallet' = wallet - worker[w].copy.quota
        /\ worker' = [worker EXCEPT ![w] =
                        IF w \in Loops THEN Idle ELSE [@ EXCEPT !.pc = "payToken"]]
        /\ UNCHANGED <<errors, cut>>
  /\ UNCHANGED <<setup, row, sub, tokens, overdue, bulk, crashes>>

\* Mutant: the token is forgotten.
TokenDueNever(copy) == 0

\* What the token gets back.
TokenDue(copy) == IF copy.token THEN copy.quota ELSE 0

PayToken(w) ==
  /\ worker[w].pc = "payToken"
  /\ \/ Failing /\ cut' = TRUE /\ UNCHANGED tokens
     \/ /\ tokens' = tokens - TokenDue(worker[w].copy)
        /\ UNCHANGED <<errors, cut>>
  /\ worker' = [worker EXCEPT ![w].pc = "clear"]
  /\ UNCHANGED <<setup, row, sub, wallet, overdue, bulk, crashes>>

\* The marker is cleared.
Clear(w) ==
  /\ worker[w].pc = "clear"
  /\ \/ Failing /\ cut' = TRUE /\ UNCHANGED row
     \/ /\ row' = [row EXCEPT !.quota = 0, !.token = worker[w].copy.token]
        /\ UNCHANGED <<errors, cut>>
  /\ worker' = [worker EXCEPT ![w] = Idle]
  /\ UNCHANGED <<setup, sub, wallet, tokens, overdue, bulk, crashes>>

Pass(w) == \/ Read(w) \/ BulkFail(w) \/ Unanswered(w) \/ Update(w)
           \/ Pay(w) \/ PayToken(w) \/ Clear(w)

HourPasses ==
  /\ ~overdue /\ row # NoRow
  /\ overdue' = TRUE
  /\ UNCHANGED <<setup, row, sub, worker, wallet, tokens, bulk, cut, errors, crashes>>

\* A node stops: a pass or the submission is cut off where it is.
Crash ==
  /\ crashes < MaxCrashes
  /\ crashes' = crashes + 1
  /\ \/ \E w \in Workers :
          /\ worker[w].pc # "idle"
          /\ worker' = [worker EXCEPT ![w] = Idle]
          /\ cut' = (cut \/ worker[w].pc # "ask")
          /\ UNCHANGED sub
     \/ /\ Interrupted /\ sub.pc # "over"
        /\ sub' = [sub EXCEPT !.pc = "over"]
        /\ cut' = (cut \/ sub.pc # "insert")
        /\ UNCHANGED worker
  /\ UNCHANGED <<setup, row, wallet, tokens, overdue, bulk, errors>>

Next == Submission \/ HourPasses \/ Crash \/ \E w \in Workers : Pass(w)

Spec == Init /\ [][Next]_vars

\* The loop sleeps for 15 seconds and polls again, and time passes.
FairSpec == Spec /\ WF_vars(HourPasses) /\ \A w \in Workers : WF_vars(Pass(w))

-----------------------------------------------------------------------------
\* Nobody is in the middle of a billing.
Quiet == /\ sub.pc = "over"
         /\ \A w \in Workers : worker[w].pc \in {"idle", "ask"}

Over == row.status = "FAILURE" /\ row.full

\* A pass that reads the row before its submission is over meets no failing
\* statement.
Timely == Early => MaxErrors = 0

\* Only the handler polls, and only after an uninterrupted submission; one
\* statement may fail.
Orderly == Active \subseteq Handlers /\ ~Early /\ ~Interrupted /\ MaxErrors <= 1

\* With both kinds of pass at work from the first moment of the row on, the
\* wallet of a failed task gets the price back once, and any other task keeps
\* it.  With the handler alone, whatever fails once or is cut off in a pass,
\* neither the wallet nor the token gets back more than it gave; between
\* billings the row says what they gave, so that what the next pass gives back
\* is what was taken; and a task that a pass found failed has cost neither of
\* them anything (RefundMidjourneyQuota reverses every element).
RefundIsExact ==
  /\ Timely /\ Quiet /\ ~cut /\ ~bulk => wallet = IF Over THEN 0 ELSE sub.quota
  /\ Orderly =>
       /\ wallet >= 0 /\ tokens >= 0
       /\ Quiet /\ ~cut =>
            /\ wallet = row.quota
            /\ tokens = IF row.token THEN row.quota ELSE 0
            /\ Over /\ ~bulk => wallet = 0 /\ tokens = 0

\* An hour after its submission a task that the upstream answers about is
\* complete, as the passes' timeout says.
EveryTaskEnds == ~row.full ~> row.full \/ Forgets
=============================================================================
