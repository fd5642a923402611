----------------------------- MODULE Redemption -----------------------------
(***************************************************************************)
(* What a user is given without paying: redemption codes                   *)
(* (model/redemption.go, controller/redemption.go) and the daily check-in  *)
(* (model/checkin.go).                                                     *)
(*                                                                         *)
(* Several requests of one user run at once.  Redeem is a transaction that *)
(* reads the code and then takes it with a conditional update; the read    *)
(* locks the row where the database has row locks.  An administrator's     *)
(* edit reads the code and writes most of its columns back later, with no  *)
(* transaction around the two.                                             *)
(***************************************************************************)
EXTENDS Integers

CONSTANTS
    Requests,       \* request handlers of the user
    Codes,          \* redemption codes
    Quotas,         \* amounts a code can be worth
    Award,          \* what a check-in is worth
    MaxWalletQuota, \* the ceiling of a wallet
    LastDay,        \* bound of the calendar
    Databases       \* the databases and faults a behaviour may run with,
                    \* records of the fields below

VARIABLE base       \* the one of this behaviour; it never changes

RowLocks == base.locks      \* TRUE on MySQL and PostgreSQL, FALSE on SQLite
FaultBudget == base.faults  \* statements that may fail, and crashes
Edits == base.edits         \* administrator's edits of codes

VARIABLES
    code,      \* redemptions
    edit,      \* the copy of a code an administrator's edit works on
    checkin,   \* the days with a row in checkins
    today,     \* the date
    req,       \* where each request is
    quota,     \* the user's wallet
    budget,    \* faults and edits left
    hist       \* history: redemptions and awards, see Init

vars == <<base, code, edit, checkin, today, req, quota, budget, hist>>

Days == 0..LastDay

NoCopy == [status |-> "deleted", quota |-> 0, expired |-> FALSE]

Idle == [at |-> "idle", code |-> "none", quota |-> 0, day |-> 0]

Init ==
    /\ base \in Databases
    /\ code \in [Codes -> [status : {"enabled"}, quota : Quotas,
                           expired : {FALSE}]]
    /\ edit = [c \in Codes |-> NoCopy]
    /\ checkin = {}
    /\ today = 0
    /\ req = [r \in Requests |-> Idle]
    /\ quota = 0
    /\ budget = [fault |-> FaultBudget, edit |-> Edits]
    /\ hist = [redeemed |-> [c \in Codes |-> 0],  \* credits of a code
               awards |-> [d \in Days |-> 0],     \* credits of a day
               lost |-> {}]                       \* days whose award was lost

Fault == budget.fault > 0 /\ budget' = [budget EXCEPT !.fault = @ - 1]

-----------------------------------------------------------------------------
(* Redemption codes.                                                       *)

\* A request of the user has read the code in its transaction.
Held(c) ==
    RowLocks /\ \E r \in Requests : req[r].at = "redeem" /\ req[r].code = c

\* Redeem reads the code.
RedeemReads(r, c) ==
    /\ req[r] = Idle
    /\ ~Held(c)
    /\ code[c].status = "enabled"
    /\ ~code[c].expired
    /\ req' = [req EXCEPT ![r] = [at |-> "redeem", code |-> c,
                                  quota |-> code[c].quota, day |-> 0]]
    /\ UNCHANGED <<code, edit, checkin, today, quota, budget, hist>>

\* A bug this model can tell: the update has no condition on the status.
TakeableAlways(c) == code[c].status # "deleted"

\* The conditional update finds the code.
Takeable(c) == code[c].status = "enabled"

\* creditTopUpQuota has room for n.
Fits(n) == quota <= MaxWalletQuota - n

\* It takes the code and credits what was read; when another request has the
\* code, the wallet is full or a statement fails, it is rolled back.
RedeemTakes(r) ==
    /\ req[r].at = "redeem"
    /\ LET c == req[r].code
           n == req[r].quota
       IN  \/ /\ Takeable(c)
              /\ Fits(n)
              /\ code' = [code EXCEPT ![c].status = "used"]
              /\ quota' = quota + n
              /\ hist' = [hist EXCEPT !.redeemed[c] = @ + 1]
              /\ UNCHANGED budget
           \/ /\ ~(Takeable(c) /\ Fits(n))
              /\ UNCHANGED <<code, quota, hist, budget>>
           \/ /\ Fault
              /\ UNCHANGED <<code, quota, hist>>
    /\ req' = [req EXCEPT ![r] = Idle]
    /\ UNCHANGED <<edit, checkin, today>>

\* UpdateRedemption reads the code and changes its copy: the fields, or with
\* status_only the status.
EditReads(c, new) ==
    /\ budget.edit > 0
    /\ edit[c] = NoCopy
    /\ code[c].status # "deleted"
    /\ \/ new.status = code[c].status /\ ~new.expired
       \/ /\ new.status \in {"enabled", "disabled"}
          /\ new.status # code[c].status
          /\ new = [code[c] EXCEPT !.status = new.status]
    /\ edit' = [edit EXCEPT ![c] = new]
    /\ budget' = [budget EXCEPT !.edit = @ - 1]
    /\ UNCHANGED <<code, checkin, today, req, quota, hist>>

\* Redemption.Update writes the status, the quota and the expiry of the copy.
EditWrites(c) ==
    /\ edit[c] # NoCopy
    /\ ~Held(c)
    /\ code' = IF code[c].status = "deleted" THEN code
               ELSE [code EXCEPT ![c] = edit[c]]
    /\ edit' = [edit EXCEPT ![c] = NoCopy]
    /\ UNCHANGED <<checkin, today, req, quota, budget, hist>>

\* DeleteRedemption and DeleteRedemptionBatch.
DeleteCode(c) ==
    /\ code[c].status # "deleted"
    /\ ~Held(c)
    /\ code' = [code EXCEPT ![c].status = "deleted"]
    /\ UNCHANGED <<edit, checkin, today, req, quota, budget, hist>>

\* DeleteInvalidRedemptions.
DeleteInvalid ==
    /\ \A c \in Codes : ~Held(c)
    /\ code' = [c \in Codes |->
                  IF \/ code[c].status \in {"used", "disabled"}
                     \/ code[c].status = "enabled" /\ code[c].expired
                  THEN [code[c] EXCEPT !.status = "deleted"] ELSE code[c]]
    /\ UNCHANGED <<edit, checkin, today, req, quota, budget, hist>>

\* The expiry of a code passes.
Expire(c) ==
    /\ ~code[c].expired
    /\ code' = [code EXCEPT ![c].expired = TRUE]
    /\ UNCHANGED <<edit, checkin, today, req, quota, budget, hist>>

-----------------------------------------------------------------------------
(* Check-in.                                                               *)

\* UserCheckin: HasCheckedInToday finds nothing, and the date is noted.
CheckinReads(r) ==
    /\ req[r] = Idle
    /\ today \notin checkin
    /\ req' = [req EXCEPT ![r] = [Idle EXCEPT !.at = "checkin", !.day = today]]
    /\ UNCHANGED <<code, edit, checkin, today, quota, budget, hist>>

\* The unique index of checkins accepts a row for day d.
Creatable(d) == d \notin checkin

Awarded(d) ==
    /\ quota' = quota + Award
    /\ hist' = [hist EXCEPT !.awards[d] = @ + 1]

\* userCheckinWithTransaction: the row and the award together.
CheckinInTransaction(r) ==
    /\ RowLocks
    /\ req[r].at = "checkin"
    /\ \/ /\ Creatable(req[r].day)
          /\ checkin' = checkin \cup {req[r].day}
          /\ Awarded(req[r].day)
          /\ UNCHANGED budget
       \/ /\ ~Creatable(req[r].day)
          /\ UNCHANGED <<checkin, quota, hist, budget>>
       \/ Fault /\ UNCHANGED <<checkin, quota, hist>>
    /\ req' = [req EXCEPT ![r] = Idle]
    /\ UNCHANGED <<code, edit, today>>

\* userCheckinWithoutTransaction: the row first.
CheckinCreates(r) ==
    /\ ~RowLocks
    /\ req[r].at = "checkin"
    /\ \/ /\ Creatable(req[r].day)
          /\ checkin' = checkin \cup {req[r].day}
          /\ req' = [req EXCEPT ![r].at = "award"]
          /\ UNCHANGED budget
       \/ /\ (~Creatable(req[r].day) /\ UNCHANGED budget) \/ Fault
          /\ req' = [req EXCEPT ![r] = Idle]
          /\ UNCHANGED checkin
    /\ UNCHANGED <<code, edit, today, quota, hist>>

\* The row is deleted when the award fails.
TakesBack(d) == checkin' = checkin \ {d}

\* Then the award, or the row is taken back, unless that fails too.
CheckinAwards(r) ==
    /\ req[r].at = "award"
    /\ \/ Awarded(req[r].day) /\ UNCHANGED <<checkin, budget>>
       \/ Fault /\ TakesBack(req[r].day) /\ UNCHANGED <<quota, hist>>
       \/ /\ budget.fault > 1
          /\ budget' = [budget EXCEPT !.fault = @ - 2]
          /\ hist' = [hist EXCEPT !.lost = @ \cup {req[r].day}]
          /\ UNCHANGED <<checkin, quota>>
    /\ req' = [req EXCEPT ![r] = Idle]
    /\ UNCHANGED <<code, edit, today>>

\* The node dies; what was not committed is gone.
Crash(r) ==
    /\ req[r] # Idle
    /\ Fault
    /\ req' = [req EXCEPT ![r] = Idle]
    /\ hist' = IF req[r].at = "award"
               THEN [hist EXCEPT !.lost = @ \cup {req[r].day}] ELSE hist
    /\ UNCHANGED <<code, edit, checkin, today, quota>>

Midnight ==
    /\ today < LastDay
    /\ today' = today + 1
    /\ UNCHANGED <<code, edit, checkin, req, quota, budget, hist>>

-----------------------------------------------------------------------------
Request(r) ==
    \/ \E c \in Codes : RedeemReads(r, c)
    \/ RedeemTakes(r)
    \/ CheckinReads(r)
    \/ CheckinInTransaction(r)
    \/ CheckinCreates(r)
    \/ CheckinAwards(r)
    \/ Crash(r)

Admin(c) ==
    \/ \E new \in [status : {"enabled", "disabled", "used"},
                   quota : Quotas, expired : BOOLEAN] : EditReads(c, new)
    \/ EditWrites(c)
    \/ DeleteCode(c)
    \/ Expire(c)

Next ==
    /\ \/ \E r \in Requests : Request(r)
       \/ \E c \in Codes : Admin(c)
       \/ DeleteInvalid
       \/ Midnight
    /\ UNCHANGED base

Spec == Init /\ [][Next]_vars

-----------------------------------------------------------------------------
\* A code credits once, and once more at most for each edit of an administrator
\* (Redeem: only the transaction that takes it from enabled to used credits);
\* codes do not take the wallet over its ceiling.
RedeemedOnce ==
    /\ \A c \in Codes : hist.redeemed[c] <= 1 + (Edits - budget.edit)
    /\ quota <= MaxWalletQuota + Award * (LastDay + 1)

\* A day is awarded once, though two requests may both have found that the
\* user has not checked in (UserCheckin, unique index of checkins).
AwardedOnce == \A d \in Days : hist.awards[d] <= 1

\* A day the user has checked in on was awarded, when no request is between
\* the row and the award and none died there or failed to take the row back.
CheckedInMeansAwarded ==
    \A d \in checkin :
        \/ hist.awards[d] = 1
        \/ d \in hist.lost
        \/ \E r \in Requests : req[r].at = "award" /\ req[r].day = d
=============================================================================
